---- MODULE Spec2Model ----
(***************************************************************************)
(* Model of the PCA9685 PWM controller driver of librfs                    *)
(* (src/src/pca9685.hpp) together with the register file of the chip it    *)
(* talks to over the I2C bus.                                              *)
(*                                                                         *)
(* Every public method of Pca9685 is one action (Call_<method>); the       *)
(* setters and getters of the boolean settings and of the addresses, one   *)
(* line each in the source, are called through Call_set_flag,              *)
(* Call_get_flag, Call_set_address and Call_get_address.  The methods of   *)
(* the channel handle Pca9685Pwm are the actions Call_Pca9685Pwm_<method>. *)
(* A call                                                                  *)
(* is a sequence of blocking bus transactions; each transaction may fail,  *)
(* which is modelled by the input failAt, the index of the transaction of  *)
(* the call that fails (0: none fails).  The methods themselves are        *)
(* operators over a bus context b = [regs, log, failAt, fdok]: the chip    *)
(* registers, the transactions issued so far by the call, the failure      *)
(* point and whether the descriptor used is an open one.                   *)
(*                                                                         *)
(* Numbers: float arguments are modelled as rationals <<num, den>> (the    *)
(* on/off fractions) or as integers (frequencies in Hz); the inputs are    *)
(* chosen so that float and exact arithmetic agree on them.                *)
(***************************************************************************)
EXTENDS Integers, Sequences, FiniteSets, TLC

VARIABLES
    fd,         \* Pca9685::fd, -1 when no handle is held
    alive,      \* TRUE between the constructor and the destructor
    open_fds,   \* descriptors the process holds open (kernel side)
    regs,       \* the chip's registers: address -> byte
    last,       \* the last call: method, arguments, result, bus log
    handle,     \* the Pca9685Pwm the caller keeps: channel, phase, duty_cycle,
                \* and whether its weak_ptr to the driver has expired
    chain,      \* the KinematicChain: parameters and joints
    ik          \* the frame of inverse_kinematics (pc is "idle" when it is
                \* not running), and op, ret: the last call on the chain and
                \* what forward_kinematics returned last

vars == <<fd, alive, open_fds, regs, last, handle, chain, ik>>

----------------------------------------------------------------------------
(* Bounds of the model *)

\* at most this many descriptors are open at a time (open on an open driver
\* acquires a second one)
MaxFds == 2
\* the channels 0..NumDriven-1 are the ones addressed individually
NumDriven == 1
\* inverse_kinematics is called on joint angles of at most this many turns
MaxTurns == 1

----------------------------------------------------------------------------
(* Register map, src/src/pca9685.hpp:663-694 *)

MODE1_RESTART_MASK == 128
MODE1_EXTCLK_MASK == 64
MODE1_AI_MASK == 32
MODE1_SLEEP_MASK == 16
MODE1_SUB1_MASK == 8
MODE1_SUB2_MASK == 4
MODE1_SUB3_MASK == 2
MODE1_ALLCALL_MASK == 1
MODE2_INVRT_MASK == 16
MODE2_OCH_MASK == 8
MODE2_OUTDRV_MASK == 4
MODE2_OUTNE_MASK == 3
LED_OFF_MASK == 16
LED_ON_MASK == 16

MODE1_REGISTER == 0
MODE2_REGISTER == 1
SUB1_REGISTER == 2
SUB2_REGISTER == 3
SUB3_REGISTER == 4
ALLCALL_REGISTER == 4
LED0_REGISTER == 6
ALL_LED_REGISTER == 250
PRESCALE_REGISTER == 254

CHANNELS_COUNT == 16
NUM_REGISTERS_PER_CHANNEL == 4
CHANNELS_REGISTERS_OFFSET == 6
COUNTER_TICKS == 4096
INTERNAL_CLOCK_FREQUENCY == 25000000
MIN_PRESCALE == 3
MAX_PRESCALE == 255
ALL_CHANNELS == 61

\* enum class Pca9685OutputChange and Pca9685OutputDisabledMode, by value
OnStop == 0
OnAck == 1
Low == 0
Driver == 1
HighImpedance == 2

----------------------------------------------------------------------------
(* Bit operations on bytes *)

RECURSIVE BitAnd(_, _)
BitAnd(a, b) ==
    IF a = 0 \/ b = 0 THEN 0
    ELSE (a % 2) * (b % 2) + 2 * BitAnd(a \div 2, b \div 2)

BitOr(a, b) == a + b - BitAnd(a, b)

\* v & ~mask, the result stored in a uint8_t
BitClear(v, mask) == BitAnd(v, 255 - mask)

Min(a, b) == IF a < b THEN a ELSE b

----------------------------------------------------------------------------
(* The chip: register file and its reaction to reads and writes *)

ChannelRegs == LED0_REGISTER .. (LED0_REGISTER + CHANNELS_COUNT * NUM_REGISTERS_PER_CHANNEL - 1)
AllLedRegs == ALL_LED_REGISTER .. (ALL_LED_REGISTER + NUM_REGISTERS_PER_CHANNEL - 1)
RegAddrs == (0 .. 5) \cup ChannelRegs \cup {PRESCALE_REGISTER}

\* register of byte k (0..3) of channel c
ChanReg(c, k) == c * NUM_REGISTERS_PER_CHANNEL + CHANNELS_REGISTERS_OFFSET + k

\* the chip after power-up: asleep, all-call enabled, sub-addresses
\* 0xE2/0xE4/0xE8, all-call address 0xE0, every channel full off
ChipPowerUp ==
    [a \in RegAddrs |->
        CASE a = MODE1_REGISTER -> BitOr(MODE1_SLEEP_MASK, MODE1_ALLCALL_MASK)
          [] a = MODE2_REGISTER -> MODE2_OUTDRV_MASK
          [] a = SUB1_REGISTER -> 226
          [] a = SUB2_REGISTER -> 228
          [] a = 4 -> 232
          [] a = 5 -> 224
          [] a = PRESCALE_REGISTER -> 30
          [] a \in ChannelRegs /\ (a - LED0_REGISTER) % 4 = 3 -> LED_OFF_MASK
          [] OTHER -> 0]

ChipAsleep(r) == BitAnd(r[MODE1_REGISTER], MODE1_SLEEP_MASK) # 0
ChipAutoInc(r) == BitAnd(r[MODE1_REGISTER], MODE1_AI_MASK) # 0

\* a channel is driven unless its full-off bit is set
ChanActive(r, c) == BitAnd(r[ChanReg(c, 3)], LED_OFF_MASK) = 0
AnyChanActive(r) == \E c \in 0 .. (CHANNELS_COUNT - 1) : ChanActive(r, c)

\* the broadcast registers are write only and read as zero
ChipRead(r, reg) == IF reg \in AllLedRegs THEN 0 ELSE r[reg]

\* a write to mode register 1: bit 7 is the restart-needed flag, which the
\* chip raises when it is put to sleep with a channel still driven and
\* which a written 1 clears; a written 0 leaves it alone
ChipWriteMode1(r, v) ==
    LET old == r[MODE1_REGISTER]
        flag == BitAnd(old, MODE1_RESTART_MASK) # 0
        wr1 == BitAnd(v, MODE1_RESTART_MASK) # 0
        toSleep == BitAnd(old, MODE1_SLEEP_MASK) = 0 /\ BitAnd(v, MODE1_SLEEP_MASK) # 0
        flag2 == IF toSleep /\ AnyChanActive(r) THEN TRUE
                 ELSE IF wr1 THEN FALSE ELSE flag
        low == BitClear(v, MODE1_RESTART_MASK)
    IN [r EXCEPT ![MODE1_REGISTER] = IF flag2 THEN BitOr(low, MODE1_RESTART_MASK) ELSE low]

\* the high byte of a channel's on or off count holds 4 count bits and the
\* always-on / always-off flag; its three upper bits read as zero
ChanByte(k, v) == IF k % 2 = 1 THEN BitAnd(v, 31) ELSE v

\* the prescale register is latched only while the oscillator is stopped
ChipWritePrescale(r, v) ==
    IF ChipAsleep(r) THEN [r EXCEPT ![PRESCALE_REGISTER] = v] ELSE r

\* a write to a broadcast register loads that byte of every channel
ChipWriteAllLed(r, reg, v) ==
    LET k == reg - ALL_LED_REGISTER
    IN [a \in RegAddrs |->
           IF a \in ChannelRegs /\ (a - LED0_REGISTER) % NUM_REGISTERS_PER_CHANNEL = k
           THEN ChanByte(k, v) ELSE r[a]]

ChipWrite(r, reg, v) ==
    CASE reg = MODE1_REGISTER -> ChipWriteMode1(r, v)
      [] reg = PRESCALE_REGISTER -> ChipWritePrescale(r, v)
      [] reg \in AllLedRegs -> ChipWriteAllLed(r, reg, v)
      [] reg \in ChannelRegs -> [r EXCEPT ![reg] = ChanByte(reg - LED0_REGISTER, v)]
      [] OTHER -> [r EXCEPT ![reg] = v]

\* register addressed by byte i (0-based) of a block transfer starting at
\* reg: consecutive registers with auto-increment, the same one without
BlockReg(r, reg, i) == IF ChipAutoInc(r) THEN reg + i ELSE reg

RECURSIVE ChipWriteBlock(_, _, _, _)
ChipWriteBlock(r, reg, data, i) ==
    IF i >= Len(data) THEN r
    ELSE ChipWriteBlock(ChipWrite(r, BlockReg(r, reg, i), data[i + 1]), reg, data, i + 1)

ChipReadBlock(r, reg, size) ==
    IF ChipAutoInc(r) THEN [i \in 1 .. size |-> ChipRead(r, reg + i - 1)]
    ELSE [i \in 1 .. size |-> ChipRead(r, reg)]

----------------------------------------------------------------------------
(* Bus transactions, src/src/pca9685.hpp:710-758 *)

NewBus(r, ok, f) == [regs |-> r, log |-> <<>>, failAt |-> f, fdok |-> ok]

\* the transaction about to be issued fails
TxFails(b) == ~b.fdok \/ Len(b.log) + 1 = b.failAt
TxErr(b) == IF ~b.fdok THEN "EBADF" ELSE "EIO"

\* a transaction as logged: asleep is the chip's sleep bit when it is issued
LogEntry(b, kind, reg, data) ==
    [kind |-> kind, reg |-> reg, data |-> data, ok |-> ~TxFails(b),
     asleep |-> ChipAsleep(b.regs)]

Ok(b, val) == [b |-> b, ok |-> TRUE, err |-> "", detail |-> "", val |-> val]
Fail(b, err, detail) == [b |-> b, ok |-> FALSE, err |-> err, detail |-> detail, val |-> 0]

read_register(b, reg) ==
    LET b2 == [b EXCEPT !.log = Append(@, LogEntry(b, "read", reg, <<>>))]
    IN IF TxFails(b) THEN Fail(b2, TxErr(b), "")
       ELSE Ok(b2, BitAnd(ChipRead(b.regs, reg), 255))

write_register(b, reg, value) ==
    LET b2 == [b EXCEPT !.log = Append(@, LogEntry(b, "write", reg, <<value>>))]
    IN IF TxFails(b) THEN Fail(b2, TxErr(b), "")
       ELSE Ok([b2 EXCEPT !.regs = ChipWrite(b.regs, reg, value)], 0)

read_block(b, reg, size) ==
    LET b2 == [b EXCEPT !.log = Append(@, LogEntry(b, "read_block", reg, <<>>))]
    IN IF TxFails(b) THEN Fail(b2, TxErr(b), "")
       ELSE Ok(b2, ChipReadBlock(b.regs, reg, size))

write_block(b, reg, data) ==
    LET b2 == [b EXCEPT !.log = Append(@, LogEntry(b, "write_block", reg, data))]
    IN IF TxFails(b) THEN Fail(b2, TxErr(b), "")
       ELSE Ok([b2 EXCEPT !.regs = ChipWriteBlock(b.regs, reg, data, 0)], 0)

----------------------------------------------------------------------------
(* Private helpers, src/src/pca9685.hpp:699-744 *)

\* mutant: the broadcast sentinel is not recognised
channel_exists_NoBroadcast(channel) == channel < CHANNELS_COUNT

channel_exists(channel) == channel < CHANNELS_COUNT \/ channel = ALL_CHANNELS

get_bool(b, reg, mask) ==
    LET value == read_register(b, reg)
    IN IF ~value.ok THEN value
       ELSE Ok(value.b, BitAnd(value.val, mask) # 0)

\* mutant: the write is made whether or not the read succeeded
set_bool_WritesAnyway(b, reg, mask, value) ==
    LET result_read == read_register(b, reg)
    IN write_register(result_read.b, reg,
            IF value THEN BitOr(result_read.val, mask)
            ELSE BitClear(result_read.val, mask))

\* mutant: the other bits of the register are written as zero
set_bool_MaskOnly(b, reg, mask, value) ==
    LET result_read == read_register(b, reg)
    IN IF ~result_read.ok THEN result_read
       ELSE write_register(result_read.b, reg, IF value THEN mask ELSE 0)

set_bool(b, reg, mask, value) ==
    LET result_read == read_register(b, reg)
    IN IF ~result_read.ok THEN result_read
       ELSE write_register(result_read.b, reg,
                IF value THEN BitOr(result_read.val, mask)
                ELSE BitClear(result_read.val, mask))

\* the mask is not used: value is written as the whole register
set_bits(b, reg, mask, value) ==
    LET result_read == read_register(b, reg)
    IN IF ~result_read.ok THEN result_read
       ELSE write_register(result_read.b, reg, value)

set_auto_increment(b, enabled) == set_bool(b, MODE1_REGISTER, MODE1_AI_MASK, enabled)

\* mutant: the broadcast sentinel addresses the registers of channel 0
RegOf_FirstOnly(channel, k) ==
    IF channel = ALL_CHANNELS THEN LED0_REGISTER + k
    ELSE (channel * NUM_REGISTERS_PER_CHANNEL + CHANNELS_REGISTERS_OFFSET + k) % 256

\* uint8_t reg = channel * NUM_REGISTERS_PER_CHANNEL + CHANNELS_REGISTERS_OFFSET + k
RegOf(channel, k) ==
    (channel * NUM_REGISTERS_PER_CHANNEL + CHANNELS_REGISTERS_OFFSET + k) % 256

----------------------------------------------------------------------------
(* Public methods as functions of the bus context *)

set_always_off(b, channel, enabled) ==
    IF ~channel_exists(channel) THEN Fail(b, "EINVAL", "")
    ELSE set_bool(b, RegOf(channel, 3), LED_OFF_MASK, enabled)

set_always_on(b, channel, enabled) ==
    IF ~channel_exists(channel) THEN Fail(b, "EINVAL", "")
    ELSE set_bool(b, RegOf(channel, 1), LED_ON_MASK, enabled)

\* mutant: the tick count is not clamped
Quantize_NoClamp(t) == (t[1] * COUNTER_TICKS) \div t[2]

\* static_cast<uint16_t>(t * COUNTER_TICKS) clamped to COUNTER_TICKS - 1, for
\* a fraction t = <<num, den>> with 0 <= t <= 1
Quantize(t) == Min((t[1] * COUNTER_TICKS) \div t[2], COUNTER_TICKS - 1)

FracNeg(t) == t[1] < 0
FracAboveOne(t) == t[1] > t[2]

\* mutant: equal tick counts are written like any others
set_on_off_times_NoEqualCheck(b, channel, on_time, off_time) ==
    IF ~channel_exists(channel) THEN Fail(b, "EINVAL", "channel")
    ELSE IF FracNeg(on_time) \/ FracAboveOne(on_time) THEN Fail(b, "EINVAL", "on_time")
    ELSE IF FracNeg(off_time) \/ FracAboveOne(off_time) THEN Fail(b, "EINVAL", "off_time")
    ELSE LET on_time_int == Quantize(on_time)
             off_time_int == Quantize(off_time)
             data == << BitAnd(on_time_int, 255),
                        BitAnd(on_time_int \div 256, 15),
                        BitAnd(off_time_int, 255),
                        BitAnd(off_time_int \div 256, 15) >>
         IN write_block(b, RegOf(channel, 0), data)

\* mutant: the high byte of the off count is left as it is
set_on_off_times_ThreeBytes(b, channel, on_time, off_time) ==
    IF ~channel_exists(channel) THEN Fail(b, "EINVAL", "channel")
    ELSE IF FracNeg(on_time) \/ FracAboveOne(on_time) THEN Fail(b, "EINVAL", "on_time")
    ELSE IF FracNeg(off_time) \/ FracAboveOne(off_time) THEN Fail(b, "EINVAL", "off_time")
    ELSE LET on_time_int == Quantize(on_time)
             off_time_int == Quantize(off_time)
             data == << BitAnd(on_time_int, 255),
                        BitAnd(on_time_int \div 256, 15),
                        BitAnd(off_time_int, 255) >>
         IN IF on_time_int = off_time_int
            THEN Fail(b, "EINVAL", "on_time and off_time must have different values")
            ELSE write_block(b, RegOf(channel, 0), data)

set_on_off_times(b, channel, on_time, off_time) ==
    IF ~channel_exists(channel) THEN Fail(b, "EINVAL", "channel")
    ELSE IF FracNeg(on_time) \/ FracAboveOne(on_time) THEN Fail(b, "EINVAL", "on_time")
    ELSE IF FracNeg(off_time) \/ FracAboveOne(off_time) THEN Fail(b, "EINVAL", "off_time")
    ELSE LET on_time_int == Quantize(on_time)
             off_time_int == Quantize(off_time)
             data == << BitAnd(on_time_int, 255),
                        BitAnd(on_time_int \div 256, 15),
                        BitAnd(off_time_int, 255),
                        BitAnd(off_time_int \div 256, 15) >>
         IN IF on_time_int = off_time_int
            THEN Fail(b, "EINVAL", "on_time and off_time must have different values")
            ELSE write_block(b, RegOf(channel, 0), data)

\* the Pca9685OnOffTimes built from the four bytes read; on and off are the
\* floats on_int / COUNTER_TICKS and off_int / COUNTER_TICKS
OnOffTimes(res) ==
    LET on_int == BitAnd(res[2], 15) * 256 + res[1]
        off_int == BitAnd(res[4], 15) * 256 + res[3]
    IN [on |-> <<on_int, COUNTER_TICKS>>,
        off |-> <<off_int, COUNTER_TICKS>>,
        always_on |-> BitAnd(res[2], LED_ON_MASK) # 0,
        always_off |-> BitAnd(res[4], LED_OFF_MASK) # 0]

on_off_times(b, channel) ==
    IF ~channel_exists(channel) THEN Fail(b, "EINVAL", "channel")
    ELSE LET res == read_block(b, RegOf(channel, 0), NUM_REGISTERS_PER_CHANNEL)
         IN IF ~res.ok THEN res
            ELSE Ok(res.b, OnOffTimes(res.val))

\* mutant: the restart-needed flag is read instead of the sleep bit
asleep_RestartBit(b) == get_bool(b, MODE1_REGISTER, MODE1_RESTART_MASK)

asleep(b) == get_bool(b, MODE1_REGISTER, MODE1_SLEEP_MASK)

\* mutant: the sleep bit is read instead of the restart-needed flag
needs_restart_SleepBit(b) == get_bool(b, MODE1_REGISTER, MODE1_SLEEP_MASK)

needs_restart(b) == get_bool(b, MODE1_REGISTER, MODE1_RESTART_MASK)

\* mutant: the sleep bit is cleared instead of set
sleep_Clears(b) == set_bool(b, MODE1_REGISTER, MODE1_SLEEP_MASK, FALSE)

sleep(b) == set_bool(b, MODE1_REGISTER, MODE1_SLEEP_MASK, TRUE)

\* mutant: the sleep bit is released only when a restart is needed
restart_NoWake(b) ==
    LET restart_needed == needs_restart(b)
    IN IF ~restart_needed.ok THEN restart_needed
       ELSE IF restart_needed.val
       THEN LET sleep_released == set_bool(restart_needed.b, MODE1_REGISTER, MODE1_SLEEP_MASK, FALSE)
            IN IF ~sleep_released.ok THEN sleep_released
               ELSE LET set_bool_result == set_bool(sleep_released.b, MODE1_REGISTER, MODE1_RESTART_MASK, TRUE)
                    IN IF ~set_bool_result.ok THEN set_bool_result
                       ELSE Ok(set_bool_result.b, restart_needed.val)
       ELSE Ok(restart_needed.b, restart_needed.val)

\* mutant: the restart flag is written before the sleep bit is cleared
restart_FlagFirst(b) ==
    LET restart_needed == needs_restart(b)
    IN IF ~restart_needed.ok THEN restart_needed
       ELSE LET set_bool_result ==
                    IF restart_needed.val
                    THEN set_bool(restart_needed.b, MODE1_REGISTER, MODE1_RESTART_MASK, TRUE)
                    ELSE Ok(restart_needed.b, 0)
            IN IF ~set_bool_result.ok THEN set_bool_result
               ELSE LET sleep_released == set_bool(set_bool_result.b, MODE1_REGISTER, MODE1_SLEEP_MASK, FALSE)
                    IN IF ~sleep_released.ok THEN sleep_released
                       ELSE Ok(sleep_released.b, restart_needed.val)

restart(b) ==
    LET restart_needed == needs_restart(b)
    IN IF ~restart_needed.ok THEN restart_needed
       ELSE LET sleep_released == set_bool(restart_needed.b, MODE1_REGISTER, MODE1_SLEEP_MASK, FALSE)
            IN IF ~sleep_released.ok THEN sleep_released
               ELSE IF restart_needed.val
               THEN LET set_bool_result == set_bool(sleep_released.b, MODE1_REGISTER, MODE1_RESTART_MASK, TRUE)
                    IN IF ~set_bool_result.ok THEN set_bool_result
                       ELSE Ok(set_bool_result.b, restart_needed.val)
               ELSE Ok(sleep_released.b, restart_needed.val)

\* mutant: the quotient is truncated
RoundF_Trunc(n, d) == n \div d

\* roundf(n / d) for n >= 0, d > 0: halves round away from zero
RoundF(n, d) == (2 * n + d) \div (2 * d)

\* mutant: the value is cut to 8 bits before the range check
Prescale32_Wrap(frequency, clock_frequency, ub) ==
    LET f == RoundF(clock_frequency, COUNTER_TICKS * frequency) - 1
    IN IF f < 0 THEN ub % 256 ELSE f % 256

\* uint32_t prescale_32 = roundf(clock_frequency / (COUNTER_TICKS * frequency)) - 1.
\* The float is -1 when the quotient rounds to 0, and converting a negative
\* float to uint32_t is undefined: ub is the value the build produces
\* (0 where the conversion saturates, the wrapped all-ones value elsewhere).
Prescale32(frequency, clock_frequency, ub) ==
    LET f == RoundF(clock_frequency, COUNTER_TICKS * frequency) - 1
    IN IF f < 0 THEN ub ELSE f

\* all-ones stands for 2^32 - 1, which is beyond the integers of the model
\* checker; it is only ever compared with MIN_PRESCALE and MAX_PRESCALE
UbOutcomes == {0, 2147483647}

\* the outcomes to choose from in a call: those of the undefined conversion
\* where the call makes it, a single one where it does not
UbChoices(frequency, clock_frequency) ==
    IF /\ frequency > 0
       /\ clock_frequency >= 0
       /\ RoundF(clock_frequency, COUNTER_TICKS * frequency) - 1 < 0
    THEN UbOutcomes ELSE {0}

set_frequency(b, frequency, clock_frequency, ub) ==
    IF frequency <= 0 THEN Fail(b, "EINVAL", "frequency")
    ELSE IF clock_frequency < 0 THEN Fail(b, "EINVAL", "clock_frequency")
    ELSE LET prescale_32 == Prescale32(frequency, clock_frequency, ub)
         IN IF prescale_32 < MIN_PRESCALE \/ prescale_32 > MAX_PRESCALE
            THEN Fail(b, "EINVAL", "prescale value out of range")
            ELSE LET prescale == prescale_32 % 256
                     sleep_result == sleep(b)
                 IN IF ~sleep_result.ok THEN sleep_result
                    ELSE LET write_result == write_register(sleep_result.b, PRESCALE_REGISTER, prescale)
                         IN IF ~write_result.ok THEN write_result
                            ELSE LET restart_result == restart(write_result.b)
                                 IN IF ~restart_result.ok THEN restart_result
                                    ELSE Ok(restart_result.b, 0)

\* the float clock_frequency / ((prescale + 1) * COUNTER_TICKS) as <<num, den>>
frequency(b, clock_frequency) ==
    IF clock_frequency < 0 THEN Fail(b, "EINVAL", "")
    ELSE LET prescale == read_register(b, PRESCALE_REGISTER)
         IN IF ~prescale.ok THEN prescale
            ELSE Ok(prescale.b, <<clock_frequency, (prescale.val + 1) * COUNTER_TICKS>>)

\* pwm(channel): the handle made is bound to the channel
pwm(b, channel) ==
    IF ~channel_exists(channel) THEN Fail(b, "EINVAL", "channel")
    ELSE Ok(b, channel)

----------------------------------------------------------------------------
(* Chip-wide settings of the two mode registers and the address registers *)

all_call_address_enabled(b) == get_bool(b, MODE1_REGISTER, MODE1_ALLCALL_MASK)
subaddress1_enabled(b) == get_bool(b, MODE1_REGISTER, MODE1_SUB1_MASK)
subaddress2_enabled(b) == get_bool(b, MODE1_REGISTER, MODE1_SUB2_MASK)
subaddress3_enabled(b) == get_bool(b, MODE1_REGISTER, MODE1_SUB3_MASK)
external_driver(b) == get_bool(b, MODE2_REGISTER, MODE2_OUTDRV_MASK)
output_inverted(b) == get_bool(b, MODE2_REGISTER, MODE2_INVRT_MASK)

output_change(b) ==
    LET value == read_register(b, MODE2_REGISTER)
    IN IF ~value.ok THEN value
       ELSE Ok(value.b, IF BitAnd(value.val, MODE2_OCH_MASK) # 0 THEN OnAck ELSE OnStop)

output_disabled_mode(b) ==
    LET value == read_register(b, MODE2_REGISTER)
    IN IF ~value.ok THEN value
       ELSE Ok(value.b, CASE BitAnd(value.val, MODE2_OUTNE_MASK) = 0 -> Low
                          [] BitAnd(value.val, MODE2_OUTNE_MASK) = 1 -> Driver
                          [] OTHER -> HighImpedance)

set_all_call_address_enabled(b, enabled) ==
    set_bool(b, MODE1_REGISTER, MODE1_ALLCALL_MASK, enabled)
set_subaddress1_enabled(b, enabled) == set_bool(b, MODE1_REGISTER, MODE1_SUB1_MASK, enabled)
set_subaddress2_enabled(b, enabled) == set_bool(b, MODE1_REGISTER, MODE1_SUB2_MASK, enabled)
set_subaddress3_enabled(b, enabled) == set_bool(b, MODE1_REGISTER, MODE1_SUB3_MASK, enabled)
set_external_driver(b, enabled) == set_bool(b, MODE2_REGISTER, MODE2_OUTDRV_MASK, enabled)
set_output_inverted(b, inverted) == set_bool(b, MODE2_REGISTER, MODE2_INVRT_MASK, inverted)

\* mutant: the comparison is made with the other enumerator
set_output_change_Swapped(b, value) ==
    set_bool(b, MODE2_REGISTER, MODE2_OCH_MASK, value = OnStop)

set_output_change(b, value) ==
    LET enabled == (value = OnAck)
    IN set_bool(b, MODE2_REGISTER, MODE2_OCH_MASK, enabled)

\* static_cast<uint8_t>(value) handed to set_bits
set_output_disabled_mode(b, value) ==
    set_bits(b, MODE2_REGISTER, MODE2_OUTNE_MASK, value % 256)

all_call_address(b) == read_register(b, ALLCALL_REGISTER)
subaddress1(b) == read_register(b, SUB1_REGISTER)
subaddress2(b) == read_register(b, SUB2_REGISTER)
subaddress3(b) == read_register(b, SUB3_REGISTER)

set_all_call_address(b, address) == write_register(b, ALLCALL_REGISTER, BitAnd(address, 254))

\* mutant: the address is written with its lowest bit
set_subaddress1_Raw(b, address) == write_register(b, SUB1_REGISTER, address)

set_subaddress1(b, address) == write_register(b, SUB1_REGISTER, BitAnd(address, 254))
set_subaddress2(b, address) == write_register(b, SUB2_REGISTER, BitAnd(address, 254))
set_subaddress3(b, address) == write_register(b, SUB3_REGISTER, BitAnd(address, 254))

----------------------------------------------------------------------------
(* Pca9685Pwm, the handle of one channel, src/src/pca9685.hpp:118-152 *)

\* phase + duty_cycle for fractions <<num, den>>
FracAdd(x, y) == <<x[1] * y[2] + y[1] * x[2], x[2] * y[2]>>

\* mutant: the driver is called whether or not it still exists
Pca9685Pwm_set_duty_cycle_NoLock(b, h, duty_cycle) ==
    set_on_off_times(b, h.channel, h.phase, FracAdd(h.phase, duty_cycle))

\* mutant: the pulse ends at duty_cycle, the phase not added
Pca9685Pwm_set_duty_cycle_NoPhase(b, h, duty_cycle) ==
    IF ~h.expired
    THEN set_on_off_times(b, h.channel, h.phase, duty_cycle)
    ELSE Fail(b, "ENODEV", "")

\* mutant: a pulse that passes the end of the period ends in the next one
Pca9685Pwm_set_duty_cycle_Wraps(b, h, duty_cycle) ==
    LET e == FracAdd(h.phase, duty_cycle)
    IN IF ~h.expired
       THEN set_on_off_times(b, h.channel, h.phase,
                             IF e[1] > e[2] THEN <<e[1] - e[2], e[2]>> ELSE e)
       ELSE Fail(b, "ENODEV", "")

\* set_duty_cycle of the handle h: controller.lock() succeeds unless the
\* weak_ptr has expired
Pca9685Pwm_set_duty_cycle(b, h, duty_cycle) ==
    IF ~h.expired
    THEN set_on_off_times(b, h.channel, h.phase, FracAdd(h.phase, duty_cycle))
    ELSE Fail(b, "ENODEV", "")

\* mutant: the frequency is handed to the driver
Pca9685Pwm_set_frequency_Forwards(b, h, freq) ==
    IF ~h.expired THEN set_frequency(b, freq, INTERNAL_CLOCK_FREQUENCY, 0)
    ELSE Fail(b, "ENODEV", "")

Pca9685Pwm_set_frequency(b, h, freq) == Ok(b, 0)

Pca9685Pwm_set_phase(b, h, phase) == Ok(b, 0)

----------------------------------------------------------------------------
(* Servo, src/src/servo.hpp: it owns one Pwm, here the handle h, whose
   fields half_angle_duty_cycle and offset hold the calibration *)

SERVO_MIN_ANGLE == -90
SERVO_MAX_ANGLE == 90
SERVO_FREQUENCY == 50

\* init(): the result of the owned channel's set_frequency
Servo_init(b, h) == Pca9685Pwm_set_frequency(b, h, SERVO_FREQUENCY)

\* mutant: the two end angles are rejected as well
Servo_set_angle_OpenRange(b, h, angle) ==
    LET RECURSIVE gcd(_, _)
        gcd(x, y) == IF y = 0 THEN x ELSE gcd(y, x % y)
        n == angle * h.half_angle_duty_cycle[1] * h.offset[2]
               + h.offset[1] * SERVO_MAX_ANGLE * h.half_angle_duty_cycle[2]
        d == SERVO_MAX_ANGLE * h.half_angle_duty_cycle[2] * h.offset[2]
        g == gcd(d, IF n < 0 THEN -n ELSE n)
        duty_cycle == <<n \div g, d \div g>>
    IN IF angle <= SERVO_MIN_ANGLE \/ angle >= SERVO_MAX_ANGLE
       THEN [r |-> Fail(b, "EINVAL", ""), h |-> h]
       ELSE [r |-> Pca9685Pwm_set_duty_cycle(b, h, duty_cycle),
             h |-> [h EXCEPT !.duty_cycle = duty_cycle]]

\* mutant: the offset is left out of the duty cycle
Servo_set_angle_NoOffset(b, h, angle) ==
    LET RECURSIVE gcd(_, _)
        gcd(x, y) == IF y = 0 THEN x ELSE gcd(y, x % y)
        n == angle * h.half_angle_duty_cycle[1]
        d == SERVO_MAX_ANGLE * h.half_angle_duty_cycle[2]
        g == gcd(d, IF n < 0 THEN -n ELSE n)
        duty_cycle == <<n \div g, d \div g>>
    IN IF angle < SERVO_MIN_ANGLE \/ angle > SERVO_MAX_ANGLE
       THEN [r |-> Fail(b, "EINVAL", ""), h |-> h]
       ELSE [r |-> Pca9685Pwm_set_duty_cycle(b, h, duty_cycle),
             h |-> [h EXCEPT !.duty_cycle = duty_cycle]]

\* set_angle(angle): r is what it returns, h the owned handle afterwards.
\* The duty cycle angle / 90 * half_angle_duty_cycle + offset is the
\* fraction n / d, in lowest terms.
Servo_set_angle(b, h, angle) ==
    LET RECURSIVE gcd(_, _)
        gcd(x, y) == IF y = 0 THEN x ELSE gcd(y, x % y)
        n == angle * h.half_angle_duty_cycle[1] * h.offset[2]
               + h.offset[1] * SERVO_MAX_ANGLE * h.half_angle_duty_cycle[2]
        d == SERVO_MAX_ANGLE * h.half_angle_duty_cycle[2] * h.offset[2]
        g == gcd(d, IF n < 0 THEN -n ELSE n)
        duty_cycle == <<n \div g, d \div g>>
    IN IF angle < SERVO_MIN_ANGLE \/ angle > SERVO_MAX_ANGLE
       THEN [r |-> Fail(b, "EINVAL", ""), h |-> h]
       ELSE [r |-> Pca9685Pwm_set_duty_cycle(b, h, duty_cycle),
             h |-> [h EXCEPT !.duty_cycle = duty_cycle]]

----------------------------------------------------------------------------
(* KinematicChain, src/src/kinematics.hpp.  Joint angles and alpha are
   whole quarter turns and lengths are integers, so that cos and sin are
   exact; a float is an integer or NaN.  Vectors are triples, a mat4 is its
   four columns. *)

MAX_ITERATIONS == 128

\* the float NaN, which every sum and product it enters yields again
NaN == 1000000

FAdd(a, b) == IF a = NaN \/ b = NaN THEN NaN ELSE a + b
FMul(a, b) == IF a = NaN \/ b = NaN THEN NaN ELSE a * b

\* cos of a quarter turns; sin of a is QCos(a - 1)
QCos(a) ==
    IF a = NaN THEN NaN
    ELSE CASE a % 4 = 0 -> 1 [] a % 4 = 2 -> -1 [] OTHER -> 0

dot(a, b) == FAdd(FAdd(FMul(a[1], b[1]), FMul(a[2], b[2])), FMul(a[3], b[3]))

cross(a, b) ==
    <<FAdd(FMul(a[2], b[3]), FMul(-1, FMul(b[2], a[3]))),
      FAdd(FMul(a[3], b[1]), FMul(-1, FMul(b[3], a[1]))),
      FAdd(FMul(a[1], b[2]), FMul(-1, FMul(b[1], a[2])))>>

\* v * inversesqrt(dot(v, v)): NaN for the zero vector (0 * inf); defined
\* here for the vectors along one axis, whose unit vector is exact
normalize(v) ==
    LET s == dot(v, v)
        sign(x) == IF x > 0 THEN 1 ELSE IF x < 0 THEN -1 ELSE 0
    IN CASE s = NaN \/ s = 0 -> <<NaN, NaN, NaN>>
         [] s # NaN /\ s # 0 /\ Cardinality({i \in 1 .. 3 : v[i] # 0}) = 1
              -> <<sign(v[1]), sign(v[2]), sign(v[3])>>

\* the square of distance(a, b)
distance2(a, b) ==
    LET c == <<FAdd(a[1], FMul(-1, b[1])), FAdd(a[2], FMul(-1, b[2])),
               FAdd(a[3], FMul(-1, b[3]))>>
    IN dot(c, c)

\* A * B for two mat4, columns first as in GLM
MatMul(A, B) ==
    [c \in 1 .. 4 |->
        [r \in 1 .. 4 |->
            FAdd(FAdd(FAdd(FMul(A[1][r], B[c][1]), FMul(A[2][r], B[c][2])),
                      FMul(A[3][r], B[c][3])),
                 FMul(A[4][r], B[c][4]))]]

\* mutant: the angle is stored back reduced to one turn
forward_kinematics_Wraps(parameters, joints) ==
    LET RECURSIVE loop(_, _, _, _, _)
        loop(i, js, T, pos, z) ==
            IF i > Len(parameters) \/ i > Len(js) THEN [joints |-> js, pos |-> pos]
            ELSE LET params == parameters[i]
                     angle == js[i].angle
                     Z == << <<QCos(angle), QCos(FAdd(angle, -1)), 0, 0>>,
                             <<FMul(-1, QCos(FAdd(angle, -1))), QCos(angle), 0, 0>>,
                             <<0, 0, 1, 0>>,
                             <<0, 0, params.d, 1>> >>
                     X == << <<1, 0, 0, 0>>,
                             <<0, QCos(params.alpha), QCos(params.alpha - 1), 0>>,
                             <<0, -QCos(params.alpha - 1), QCos(params.alpha), 0>>,
                             <<params.r, 0, 0, 1>> >>
                     T2 == MatMul(T, MatMul(Z, X))
                 IN loop(i + 1,
                         [js EXCEPT ![i].position = pos, ![i].z = z,
                                    ![i].angle = IF angle = NaN THEN NaN ELSE angle % 4],
                         T2,
                         <<T2[4][1], T2[4][2], T2[4][3]>>,
                         [k \in 1 .. 3 |->
                            FAdd(FAdd(FMul(T2[1][k], 0), FMul(T2[2][k], 0)), FMul(T2[3][k], 1))])
    IN loop(1, joints,
            << <<1, 0, 0, 0>>, <<0, 1, 0, 0>>, <<0, 0, 1, 0>>, <<0, 0, 0, 1>> >>,
            <<0, 0, 0>>, <<0, 0, 1>>)

\* mutant: position and z are cached after the joint is folded in
forward_kinematics_CacheAfter(parameters, joints) ==
    LET RECURSIVE loop(_, _, _, _, _)
        loop(i, js, T, pos, z) ==
            IF i > Len(parameters) \/ i > Len(js) THEN [joints |-> js, pos |-> pos]
            ELSE LET params == parameters[i]
                     angle == js[i].angle
                     Z == << <<QCos(angle), QCos(FAdd(angle, -1)), 0, 0>>,
                             <<FMul(-1, QCos(FAdd(angle, -1))), QCos(angle), 0, 0>>,
                             <<0, 0, 1, 0>>,
                             <<0, 0, params.d, 1>> >>
                     X == << <<1, 0, 0, 0>>,
                             <<0, QCos(params.alpha), QCos(params.alpha - 1), 0>>,
                             <<0, -QCos(params.alpha - 1), QCos(params.alpha), 0>>,
                             <<params.r, 0, 0, 1>> >>
                     T2 == MatMul(T, MatMul(Z, X))
                 IN loop(i + 1,
                         [js EXCEPT ![i].position = <<T2[4][1], T2[4][2], T2[4][3]>>,
                                    ![i].z = [k \in 1 .. 3 |->
                                        FAdd(FAdd(FMul(T2[1][k], 0), FMul(T2[2][k], 0)),
                                             FMul(T2[3][k], 1))]],
                         T2,
                         <<T2[4][1], T2[4][2], T2[4][3]>>,
                         [k \in 1 .. 3 |->
                            FAdd(FAdd(FMul(T2[1][k], 0), FMul(T2[2][k], 0)), FMul(T2[3][k], 1))])
    IN loop(1, joints,
            << <<1, 0, 0, 0>>, <<0, 1, 0, 0>>, <<0, 0, 1, 0>>, <<0, 0, 0, 1>> >>,
            <<0, 0, 0>>, <<0, 0, 1>>)

\* forward_kinematics(): joints is the joint sequence with the cached
\* position and z of every joint rewritten, pos the position returned
forward_kinematics(parameters, joints) ==
    LET RECURSIVE loop(_, _, _, _, _)
        loop(i, js, T, pos, z) ==
            IF i > Len(parameters) \/ i > Len(js) THEN [joints |-> js, pos |-> pos]
            ELSE LET params == parameters[i]
                     angle == js[i].angle
                     Z == << <<QCos(angle), QCos(FAdd(angle, -1)), 0, 0>>,
                             <<FMul(-1, QCos(FAdd(angle, -1))), QCos(angle), 0, 0>>,
                             <<0, 0, 1, 0>>,
                             <<0, 0, params.d, 1>> >>
                     X == << <<1, 0, 0, 0>>,
                             <<0, QCos(params.alpha), QCos(params.alpha - 1), 0>>,
                             <<0, -QCos(params.alpha - 1), QCos(params.alpha), 0>>,
                             <<params.r, 0, 0, 1>> >>
                     T2 == MatMul(T, MatMul(Z, X))
                 IN loop(i + 1,
                         [js EXCEPT ![i].position = pos, ![i].z = z],
                         T2,
                         <<T2[4][1], T2[4][2], T2[4][3]>>,
                         [k \in 1 .. 3 |->
                            FAdd(FAdd(FMul(T2[1][k], 0), FMul(T2[2][k], 0)), FMul(T2[3][k], 1))])
    IN loop(1, joints,
            << <<1, 0, 0, 0>>, <<0, 1, 0, 0>>, <<0, 0, 1, 0>>, <<0, 0, 0, 1>> >>,
            <<0, 0, 0>>, <<0, 0, 1>>)

\* mutant: the joint sequence is made as long as the list
set_angles_Resizes(joints, angles) ==
    [i \in 1 .. Len(angles) |->
        IF i <= Len(joints) THEN [joints[i] EXCEPT !.angle = angles[i]]
        ELSE [angle |-> angles[i], position |-> <<0, 0, 0>>, z |-> <<0, 0, 0>>]]

\* set_angles(angles): zip stops at the shorter of joints and angles
set_angles(joints, angles) ==
    [i \in 1 .. Len(joints) |->
        IF i <= Len(angles) THEN [joints[i] EXCEPT !.angle = angles[i]] ELSE joints[i]]

\* the signed angle, in quarter turns, about the axis of joint between
\* the projections of ee_pos and of target; acos is taken of 1, 0 and -1
compute_signed_angle(ee_pos, target, joint) ==
    LET sub(a, b) == <<FAdd(a[1], FMul(-1, b[1])), FAdd(a[2], FMul(-1, b[2])),
                       FAdd(a[3], FMul(-1, b[3]))>>
        n1 == normalize(cross(joint.z, sub(ee_pos, joint.position)))
        n2 == normalize(cross(joint.z, sub(target, joint.position)))
        c == dot(n1, n2)
        angle == CASE c = NaN -> NaN [] c = 1 -> 0 [] c = 0 -> 1 [] c = -1 -> 2
        z_2 == cross(n1, n2)
        s == dot(joint.z, z_2)
    IN IF s # NaN /\ s > 0 THEN angle ELSE FMul(-1, angle)

----------------------------------------------------------------------------
(* State, inputs and actions *)

NoArgs == [channel |-> -1, on |-> <<0, 1>>, off |-> <<0, 1>>, enabled |-> FALSE,
           freq |-> 0, clock |-> 0, value |-> 0]

Last(op, args, r) ==
    [op |-> op, args |-> args, ok |-> r.ok, err |-> r.err, detail |-> r.detail,
     val |-> r.val, log |-> r.b.log]

\* failure points of a call that issues at most n bus transactions
FailAts(n) == 0 .. n
FdOk == fd \in open_fds
Bus(f) == NewBus(regs, FdOk, f)
\* the descriptor ::open returns: the lowest one not in use
NextFd == CHOOSE n \in 3 .. (3 + MaxFds) : n \notin open_fds /\ \A m \in 3 .. (n - 1) : m \in open_fds

\* no Pca9685Pwm has been made
NoHandle == [made |-> FALSE, channel |-> 0, phase |-> <<0, 1>>, duty_cycle |-> <<0, 1>>,
             expired |-> FALSE, servo |-> FALSE,
             half_angle_duty_cycle |-> <<0, 1>>, offset |-> <<0, 1>>]

Init ==
    /\ fd = -1
    /\ alive = TRUE
    /\ open_fds = {}
    /\ regs = ChipPowerUp
    /\ last = Last("Pca9685", NoArgs, Ok(NewBus(ChipPowerUp, FALSE, 0), 0))
    /\ handle = NoHandle
    /\ chain = [parameters |-> <<>>, joints |-> <<>>]
    /\ ik = [pc |-> "idle", op |-> "", ret |-> <<0, 0, 0>>, target |-> <<0, 0, 0>>,
             max_iterations |-> 0, max_error |-> 1, iteration |-> 0, joint |-> 0,
             ee_pos |-> <<0, 0, 0>>, angles |-> <<>>]

\* mutant: the descriptor is kept when enabling auto-increment fails
open_KeepsFd(devOk, addrOk, f) ==
    IF ~devOk THEN [fd |-> -1, fds |-> open_fds, r |-> Fail(Bus(f), "ENOENT", "")]
    ELSE IF ~addrOk THEN [fd |-> -1, fds |-> open_fds, r |-> Fail(Bus(f), "EIO", "")]
    ELSE [fd |-> NextFd, fds |-> open_fds \cup {NextFd},
          r |-> set_auto_increment(NewBus(regs, TRUE, f), TRUE)]

\* open(device, address): devOk is whether ::open succeeds, addrOk whether
\* the ioctl selecting the address does
open(devOk, addrOk, f) ==
    IF ~devOk THEN [fd |-> -1, fds |-> open_fds, r |-> Fail(Bus(f), "ENOENT", "")]
    ELSE IF ~addrOk THEN [fd |-> -1, fds |-> open_fds, r |-> Fail(Bus(f), "EIO", "")]
    ELSE LET result_set_auto_inc == set_auto_increment(NewBus(regs, TRUE, f), TRUE)
         IN IF ~result_set_auto_inc.ok
            THEN [fd |-> -1, fds |-> open_fds, r |-> result_set_auto_inc]
            ELSE [fd |-> NextFd, fds |-> open_fds \cup {NextFd}, r |-> result_set_auto_inc]

Call_open ==
    /\ alive
    /\ Cardinality(open_fds) < MaxFds
    /\ \E devOk \in BOOLEAN, addrOk \in BOOLEAN, f \in FailAts(2) :
         LET o == open(devOk, addrOk, f)
         IN /\ fd' = o.fd
            /\ open_fds' = o.fds
            /\ regs' = o.r.b.regs
            /\ last' = Last("open", NoArgs, o.r)
    /\ UNCHANGED <<alive, handle, chain, ik>>

\* mutant: the handle is released whatever set_always_off returned
close_IgnoresOff(b, closeOk) ==
    LET set_off_result == set_always_off(b, ALL_CHANNELS, TRUE)
    IN IF ~(FdOk /\ closeOk)
       THEN [fd |-> fd, fds |-> open_fds, r |-> Fail(set_off_result.b, "EIO", "")]
       ELSE [fd |-> -1, fds |-> open_fds \ {fd}, r |-> Ok(set_off_result.b, 0)]

\* close(): closeOk is whether ::close succeeds on an open descriptor
close(b, closeOk) ==
    LET set_off_result == set_always_off(b, ALL_CHANNELS, TRUE)
    IN IF ~set_off_result.ok
       THEN [fd |-> fd, fds |-> open_fds, r |-> set_off_result]
       ELSE IF ~(FdOk /\ closeOk)
       THEN [fd |-> fd, fds |-> open_fds, r |-> Fail(set_off_result.b, "EIO", "")]
       ELSE [fd |-> -1, fds |-> open_fds \ {fd}, r |-> set_off_result]

Call_close ==
    /\ alive
    /\ \E closeOk \in BOOLEAN, f \in FailAts(2) :
         LET c == close(Bus(f), closeOk)
         IN /\ fd' = c.fd
            /\ open_fds' = c.fds
            /\ regs' = c.r.b.regs
            /\ last' = Last("close", NoArgs, c.r)
    /\ UNCHANGED <<alive, handle, chain, ik>>

\* ~Pca9685(): set_always_off(ALL_CHANNELS, true), its result dropped, then
\* close() if a handle is held
destructor(b, closeOk) ==
    LET off == set_always_off(b, ALL_CHANNELS, TRUE)
    IN IF fd >= 0 THEN close(off.b, closeOk)
       ELSE [fd |-> fd, fds |-> open_fds, r |-> off]

Call_destructor ==
    /\ alive
    /\ \E closeOk \in BOOLEAN, f \in FailAts(4) :
         LET c == destructor(Bus(f), closeOk)
         IN /\ fd' = c.fd
            /\ open_fds' = c.fds
            /\ regs' = c.r.b.regs
            /\ last' = Last("~Pca9685", NoArgs, c.r)
    /\ alive' = FALSE
    \* this_shared is destroyed with the driver: weak_ptrs to it expire
    /\ handle' = IF handle.made THEN [handle EXCEPT !.expired = TRUE] ELSE handle
    /\ UNCHANGED <<chain, ik>>

\* Pca9685(): a new driver object for the same chip
Call_constructor ==
    /\ ~alive
    /\ alive' = TRUE
    /\ fd' = -1
    /\ last' = Last("Pca9685", NoArgs, Ok(NewBus(regs, FALSE, 0), 0))
    /\ UNCHANGED <<open_fds, regs, handle, chain, ik>>

----------------------------------------------------------------------------
(* Inputs of the per-channel and frequency calls *)

\* channels whose times are written: the driven ones and the broadcast
\* sentinel
ChannelInputs == (0 .. (NumDriven - 1)) \cup {ALL_CHANNELS}
\* channels passed to the calls that only read: also the last channel and
\* the first one beyond the chip
ReadChannelInputs == ChannelInputs \cup {CHANNELS_COUNT - 1, CHANNELS_COUNT}
\* channels passed to the calls that set the flags
FlagChannelInputs == {0, CHANNELS_COUNT, ALL_CHANNELS}

\* on/off fractions <<num, den>>, as pairs <<on, off>>
Frac(n, d) == <<n, d>>
OnOffValid ==
    { <<Frac(1, 2), Frac(3, 4)>>,       \* whole ticks 2048 and 3072
      <<Frac(1, 4), Frac(17, 20)>>,     \* 0.85 lies between two ticks
      <<Frac(1, 1), Frac(1, 2)>> }      \* 1.0 is clamped to tick 4095
OnOffInvalid ==
    { <<Frac(-1, 1), Frac(3, 4)>>, <<Frac(1, 2), Frac(-1, 1)>>,
      <<Frac(1, 2), Frac(3, 2)>>,
      <<Frac(1, 10), Frac(1, 10)>>,     \* equal fractions
      <<Frac(1, 1), Frac(8191, 8192)>> }\* different fractions, same tick
OnOffInputs == OnOffValid \cup OnOffInvalid

\* Hz; at the default clock 23 and 2000 fall outside the prescale range,
\* 1526 gives the smallest prescale, 60 a quotient that rounds up
FreqInputs == {0, 23, 50, 60, 1526, 2000}
ClockInputs == {-1, 0, INTERNAL_CLOCK_FREQUENCY}

\* a call that touches only the chip
Call(op, args, r) ==
    /\ alive
    /\ regs' = r.b.regs
    /\ last' = Last(op, args, r)
    /\ UNCHANGED <<fd, alive, open_fds, handle, chain, ik>>

Call_set_always_off ==
    \E channel \in FlagChannelInputs, enabled \in BOOLEAN, f \in FailAts(2) :
        Call("set_always_off", [NoArgs EXCEPT !.channel = channel, !.enabled = enabled],
             set_always_off(Bus(f), channel, enabled))

Call_set_always_on ==
    \E channel \in FlagChannelInputs, enabled \in BOOLEAN, f \in FailAts(2) :
        Call("set_always_on", [NoArgs EXCEPT !.channel = channel, !.enabled = enabled],
             set_always_on(Bus(f), channel, enabled))

SetOnOffTimes(channels, pairs) ==
    \E channel \in channels, p \in pairs, f \in FailAts(1) :
        Call("set_on_off_times",
             [NoArgs EXCEPT !.channel = channel, !.on = p[1], !.off = p[2]],
             set_on_off_times(Bus(f), channel, p[1], p[2]))

Call_set_on_off_times == SetOnOffTimes(ChannelInputs, OnOffInputs)

Call_on_off_times ==
    \E channel \in ReadChannelInputs, f \in FailAts(1) :
        Call("on_off_times", [NoArgs EXCEPT !.channel = channel],
             on_off_times(Bus(f), channel))

Call_pwm ==
    \E channel \in ReadChannelInputs :
        Call("pwm", [NoArgs EXCEPT !.channel = channel], pwm(Bus(0), channel))

Call_asleep ==
    \E f \in FailAts(1) : Call("asleep", NoArgs, asleep(Bus(f)))

Call_needs_restart ==
    \E f \in FailAts(1) : Call("needs_restart", NoArgs, needs_restart(Bus(f)))

Call_sleep ==
    \E f \in FailAts(2) : Call("sleep", NoArgs, sleep(Bus(f)))

Call_restart ==
    \E f \in FailAts(5) : Call("restart", NoArgs, restart(Bus(f)))

Call_set_frequency ==
    \E freq \in FreqInputs, clock \in ClockInputs, f \in FailAts(8) :
      \E ub \in UbChoices(freq, clock) :
        Call("set_frequency", [NoArgs EXCEPT !.freq = freq, !.clock = clock],
             set_frequency(Bus(f), freq, clock, ub))

Call_frequency ==
    \E clock \in ClockInputs, f \in FailAts(1) :
        Call("frequency", [NoArgs EXCEPT !.clock = clock], frequency(Bus(f), clock))

\* set_on_off_times with one accepted and one rejected pair of fractions
Call_set_times ==
    SetOnOffTimes(FlagChannelInputs, {<<Frac(1, 2), Frac(3, 4)>>, <<Frac(1, 10), Frac(1, 10)>>})

\* one channel is driven, or all are switched off, between frequency calls
Call_drive == SetOnOffTimes({0}, {<<Frac(1, 4), Frac(1, 2)>>})

Call_all_off ==
    \E f \in FailAts(2) :
        Call("set_always_off", [NoArgs EXCEPT !.channel = ALL_CHANNELS, !.enabled = TRUE],
             set_always_off(Bus(f), ALL_CHANNELS, TRUE))

\* the setters and getters of the boolean settings, by method name
FlagSetters ==
    {"set_all_call_address_enabled", "set_subaddress1_enabled", "set_subaddress2_enabled",
     "set_subaddress3_enabled", "set_external_driver", "set_output_inverted"}
FlagGetters ==
    {"all_call_address_enabled", "subaddress1_enabled", "subaddress2_enabled",
     "subaddress3_enabled", "external_driver", "output_inverted"}

set_flag(b, op, enabled) ==
    CASE op = "set_all_call_address_enabled" -> set_all_call_address_enabled(b, enabled)
      [] op = "set_subaddress1_enabled" -> set_subaddress1_enabled(b, enabled)
      [] op = "set_subaddress2_enabled" -> set_subaddress2_enabled(b, enabled)
      [] op = "set_subaddress3_enabled" -> set_subaddress3_enabled(b, enabled)
      [] op = "set_external_driver" -> set_external_driver(b, enabled)
      [] op = "set_output_inverted" -> set_output_inverted(b, enabled)

get_flag(b, op) ==
    CASE op = "all_call_address_enabled" -> all_call_address_enabled(b)
      [] op = "subaddress1_enabled" -> subaddress1_enabled(b)
      [] op = "subaddress2_enabled" -> subaddress2_enabled(b)
      [] op = "subaddress3_enabled" -> subaddress3_enabled(b)
      [] op = "external_driver" -> external_driver(b)
      [] op = "output_inverted" -> output_inverted(b)

Call_set_flag ==
    \E op \in FlagSetters, enabled \in BOOLEAN, f \in FailAts(2) :
        Call(op, [NoArgs EXCEPT !.enabled = enabled], set_flag(Bus(f), op, enabled))

Call_get_flag ==
    \E op \in FlagGetters, f \in FailAts(1) : Call(op, NoArgs, get_flag(Bus(f), op))

Call_set_output_change ==
    \E value \in {OnStop, OnAck}, f \in FailAts(2) :
        Call("set_output_change", [NoArgs EXCEPT !.value = value],
             set_output_change(Bus(f), value))

Call_output_change ==
    \E f \in FailAts(1) : Call("output_change", NoArgs, output_change(Bus(f)))

Call_set_output_disabled_mode ==
    \E value \in {Low, Driver, HighImpedance}, f \in FailAts(2) :
        Call("set_output_disabled_mode", [NoArgs EXCEPT !.value = value],
             set_output_disabled_mode(Bus(f), value))

Call_output_disabled_mode ==
    \E f \in FailAts(1) :
        Call("output_disabled_mode", NoArgs, output_disabled_mode(Bus(f)))

\* the setters and getters of the address registers, by method name
AddressSetters ==
    {"set_subaddress1", "set_subaddress2", "set_subaddress3", "set_all_call_address"}
AddressGetters == {"subaddress1", "subaddress2", "subaddress3", "all_call_address"}
\* 0xea, and an address with its lowest bit set
AddressInputs == {234, 11}

set_address(b, op, address) ==
    CASE op = "set_subaddress1" -> set_subaddress1(b, address)
      [] op = "set_subaddress2" -> set_subaddress2(b, address)
      [] op = "set_subaddress3" -> set_subaddress3(b, address)
      [] op = "set_all_call_address" -> set_all_call_address(b, address)

get_address(b, op) ==
    CASE op = "subaddress1" -> subaddress1(b)
      [] op = "subaddress2" -> subaddress2(b)
      [] op = "subaddress3" -> subaddress3(b)
      [] op = "all_call_address" -> all_call_address(b)

Call_set_address ==
    \E op \in AddressSetters, address \in AddressInputs, f \in FailAts(1) :
        Call(op, [NoArgs EXCEPT !.value = address], set_address(Bus(f), op, address))

Call_get_address ==
    \E op \in AddressGetters, f \in FailAts(1) : Call(op, NoArgs, get_address(Bus(f), op))

\* open() on a driver that holds no handle
Call_open_first == fd = -1 /\ open_fds = {} /\ Call_open

\* pwm(channel) whose result the caller keeps, in place of the handle kept
\* before
Call_pwm_kept ==
    /\ alive
    /\ \E channel \in ChannelInputs \cup {CHANNELS_COUNT} :
         LET r == pwm(Bus(0), channel)
         IN /\ last' = Last("pwm", [NoArgs EXCEPT !.channel = channel], r)
            /\ handle' = IF r.ok THEN [NoHandle EXCEPT !.made = TRUE, !.channel = r.val]
                          ELSE handle
    /\ UNCHANGED <<fd, alive, open_fds, regs, chain, ik>>

\* duty cycles and phases handed to the handle: with phase 3/4 the pulse of
\* duty cycle 1/2 ends beyond the period, a duty cycle of 0 is an empty pulse
DutyInputs == {Frac(0, 1), Frac(1, 4), Frac(1, 2)}
PhaseInputs == {Frac(0, 1), Frac(3, 4)}

\* a call on the handle the caller keeps
HandleCall(op, args, r, h) ==
    /\ handle.made
    /\ regs' = r.b.regs
    /\ last' = Last(op, args, r)
    /\ handle' = h
    /\ UNCHANGED <<fd, alive, open_fds, chain, ik>>

Call_Pca9685Pwm_set_duty_cycle ==
    \E duty_cycle \in DutyInputs, f \in FailAts(1) :
        HandleCall("Pca9685Pwm::set_duty_cycle", [NoArgs EXCEPT !.on = duty_cycle],
                   Pca9685Pwm_set_duty_cycle(Bus(f), handle, duty_cycle),
                   [handle EXCEPT !.duty_cycle = duty_cycle])

Call_Pca9685Pwm_set_frequency ==
    \E freq \in {0, 50} :
        HandleCall("Pca9685Pwm::set_frequency", [NoArgs EXCEPT !.freq = freq],
                   Pca9685Pwm_set_frequency(Bus(0), handle, freq), handle)

Call_Pca9685Pwm_set_phase ==
    \E phase \in PhaseInputs :
        HandleCall("Pca9685Pwm::set_phase", [NoArgs EXCEPT !.on = phase],
                   Pca9685Pwm_set_phase(Bus(0), handle, phase),
                   [handle EXCEPT !.phase = phase])

\* calibrations a Servo is made with: the defaults, and a servo whose pulse
\* shrinks to nothing at -90 degrees
CalibrationInputs ==
    { [half_angle_duty_cycle |-> Frac(1, 40), offset |-> Frac(3, 40)],
      [half_angle_duty_cycle |-> Frac(3, 40), offset |-> Frac(3, 40)] }

\* angles in degrees: the two ends, the middle, and the first
\* whole degrees beyond the ends
AngleInputs == {-91, -90, 0, 90, 91}

\* Servo(driver, half_angle_duty_cycle, offset) takes over the handle the
\* caller keeps
Call_Servo ==
    /\ handle.made /\ ~handle.servo
    /\ \E c \in CalibrationInputs :
         /\ handle' = [handle EXCEPT !.servo = TRUE,
                                     !.half_angle_duty_cycle = c.half_angle_duty_cycle,
                                     !.offset = c.offset]
         /\ last' = Last("Servo", NoArgs, Ok(NewBus(regs, FdOk, 0), 0))
    /\ UNCHANGED <<fd, alive, open_fds, regs, chain, ik>>

Call_Servo_init ==
    /\ handle.servo
    /\ HandleCall("Servo::init", NoArgs, Servo_init(Bus(0), handle), handle)

Call_Servo_set_angle ==
    /\ handle.servo
    /\ \E angle \in AngleInputs, f \in FailAts(1) :
         LET s == Servo_set_angle(Bus(f), handle, angle)
         IN HandleCall("Servo::set_angle", [NoArgs EXCEPT !.value = angle], s.r, s.h)

\* the chains made: one joint turning a link of length 2 at height 1, and
\* a shoulder (its link axis turned by a quarter turn, at height 1) with a
\* link of length 2
ChainInputs ==
    { << [d |-> 1, alpha |-> 0, r |-> 2] >>,
      << [d |-> 1, alpha |-> 1, r |-> 0], [d |-> 0, alpha |-> 0, r |-> 2] >> }

\* targets: two the one-joint chain reaches, one beyond its reach, and two
\* on the axis of the base joint, which the shoulder chain reaches
TargetInputs == { <<0, 2, 1>>, <<-2, 0, 1>>, <<0, 5, 1>>, <<0, 0, 3>>, <<0, 0, -1>> }

\* KinematicChain(parameters): every joint value-initialised
Call_KinematicChain ==
    /\ ik.pc = "idle" /\ chain.parameters = <<>>
    /\ \E parameters \in ChainInputs :
         chain' = [parameters |-> parameters,
                   joints |-> [i \in 1 .. Len(parameters) |->
                                 [angle |-> 0, position |-> <<0, 0, 0>>, z |-> <<0, 0, 0>>]]]
    /\ ik' = [ik EXCEPT !.op = "KinematicChain"]
    /\ UNCHANGED <<fd, alive, open_fds, regs, last, handle>>

\* set_angles with a list shorter than, as long as, or longer than the chain
Call_set_angles ==
    /\ ik.pc = "idle" /\ chain.parameters # <<>>
    /\ \E angles \in { <<1>>, <<2, -1>>, <<0, 0, 3>> } :
         /\ chain' = [chain EXCEPT !.joints = set_angles(chain.joints, angles)]
         /\ ik' = [ik EXCEPT !.op = "set_angles", !.angles = angles]
    /\ UNCHANGED <<fd, alive, open_fds, regs, last, handle>>

Call_forward_kinematics ==
    /\ ik.pc = "idle" /\ chain.parameters # <<>>
    /\ LET f == forward_kinematics(chain.parameters, chain.joints)
       IN /\ chain' = [chain EXCEPT !.joints = f.joints]
          /\ ik' = [ik EXCEPT !.op = "forward_kinematics", !.ret = f.pos]
    /\ UNCHANGED <<fd, alive, open_fds, regs, last, handle>>

\* inverse_kinematics(target, max_iterations), up to its loop: the chain
\* with the turned axis is given the targets on the base axis, where the
\* exact cross products are zero exactly when the float ones are
Call_inverse_kinematics ==
    /\ ik.pc = "idle" /\ chain.parameters # <<>>
    /\ \A i \in 1 .. Len(chain.joints) :
         \/ chain.joints[i].angle = NaN
         \/ /\ chain.joints[i].angle <= 4 * MaxTurns
            /\ chain.joints[i].angle >= -4 * MaxTurns
    /\ \E target \in TargetInputs, max_iterations \in {-1, 0, 1, 2, MAX_ITERATIONS} :
         /\ Len(chain.parameters) > 1 => (target[1] = 0 /\ target[2] = 0)
         /\ LET f == forward_kinematics(chain.parameters, chain.joints)
            IN /\ chain' = [chain EXCEPT !.joints = f.joints]
               /\ ik' = [pc |-> "while", op |-> "inverse_kinematics", ret |-> ik.ret,
                         target |-> target, max_iterations |-> max_iterations,
                         max_error |-> 1, iteration |-> 0, joint |-> 0, ee_pos |-> f.pos,
                         angles |-> ik.angles]
    /\ UNCHANGED <<fd, alive, open_fds, regs, last, handle>>

\* mutant: the loop goes on until the target is reached
inverse_kinematics_while_NoCap ==
    /\ ik.pc = "while"
    /\ LET s == distance2(ik.ee_pos, ik.target)
       IN IF s # NaN /\ s > ik.max_error * ik.max_error
          THEN ik' = [ik EXCEPT !.pc = "for", !.joint = Len(chain.joints)]
          ELSE ik' = [ik EXCEPT !.pc = "idle"]
    /\ UNCHANGED <<fd, alive, open_fds, regs, last, handle, chain>>

\* mutant: the test comes after the first pass, as in a do-while loop
inverse_kinematics_while_PassFirst ==
    /\ ik.pc = "while"
    /\ LET s == distance2(ik.ee_pos, ik.target)
       IN IF ik.iteration = 0
             \/ (ik.iteration < ik.max_iterations /\ s # NaN /\ s > ik.max_error * ik.max_error)
          THEN ik' = [ik EXCEPT !.pc = "for", !.joint = Len(chain.joints)]
          ELSE ik' = [ik EXCEPT !.pc = "idle"]
    /\ UNCHANGED <<fd, alive, open_fds, regs, last, handle, chain>>

\* the test of the while loop: a pass begins at the last joint, or the
\* call returns
inverse_kinematics_while ==
    /\ ik.pc = "while"
    /\ LET s == distance2(ik.ee_pos, ik.target)
       IN IF ik.iteration < ik.max_iterations /\ s # NaN /\ s > ik.max_error * ik.max_error
          THEN ik' = [ik EXCEPT !.pc = "for", !.joint = Len(chain.joints)]
          ELSE ik' = [ik EXCEPT !.pc = "idle"]
    /\ UNCHANGED <<fd, alive, open_fds, regs, last, handle, chain>>

\* mutant: forward kinematics is not run again after the update
inverse_kinematics_for_Stale ==
    /\ ik.pc = "for"
    /\ IF ik.joint = 0
       THEN /\ ik' = [ik EXCEPT !.pc = "while", !.iteration = @ + 1]
            /\ chain' = chain
       ELSE LET joint == chain.joints[ik.joint]
                a == FAdd(joint.angle, compute_signed_angle(ik.ee_pos, ik.target, joint))
            IN /\ chain' = [chain EXCEPT !.joints[ik.joint].angle = a]
               /\ ik' = [ik EXCEPT !.joint = @ - 1]
    /\ UNCHANGED <<fd, alive, open_fds, regs, last, handle>>

\* one round of the for loop, joint counting down from the last joint:
\* the angle of that joint is corrected and forward kinematics run, or,
\* past the first joint, the pass ends
inverse_kinematics_for ==
    /\ ik.pc = "for"
    /\ IF ik.joint = 0
       THEN /\ ik' = [ik EXCEPT !.pc = "while", !.iteration = @ + 1]
            /\ chain' = chain
       ELSE LET joint == chain.joints[ik.joint]
                a == FAdd(joint.angle, compute_signed_angle(ik.ee_pos, ik.target, joint))
                f == forward_kinematics(chain.parameters,
                                        [chain.joints EXCEPT ![ik.joint].angle = a])
            IN /\ chain' = [chain EXCEPT !.joints = f.joints]
               /\ ik' = [ik EXCEPT !.joint = @ - 1, !.ee_pos = f.pos]
    /\ UNCHANGED <<fd, alive, open_fds, regs, last, handle>>

----------------------------------------------------------------------------
(* Specifications *)

\* timing of the channels: every on/off input, written and read back
Next ==
    \/ Call_open
    \/ Call_close
    \/ Call_set_on_off_times
    \/ Call_on_off_times

Spec == Init /\ [][Next]_vars

\* the driver's lifecycle and the per-channel calls, the flags included
NextChan ==
    \/ Call_open
    \/ Call_close
    \/ Call_destructor
    \/ Call_constructor
    \/ Call_set_always_off
    \/ Call_set_always_on
    \/ Call_set_times
    \/ Call_on_off_times
    \/ Call_pwm

SpecChan == Init /\ [][NextChan]_vars

\* sleep, restart and the frequency calls
NextFreq ==
    \/ Call_open
    \/ Call_drive
    \/ Call_all_off
    \/ Call_asleep
    \/ Call_needs_restart
    \/ Call_sleep
    \/ Call_restart
    \/ Call_set_frequency
    \/ Call_frequency

SpecFreq == Init /\ [][NextFreq]_vars

\* the settings held in the two mode registers
NextMode ==
    \/ Call_open_first
    \/ Call_set_flag
    \/ Call_get_flag
    \/ Call_set_output_change
    \/ Call_output_change
    \/ Call_set_output_disabled_mode
    \/ Call_output_disabled_mode

SpecMode == Init /\ [][NextMode]_vars

\* the programmable addresses, across close() and open()
NextAddr ==
    \/ Call_open
    \/ Call_close
    \/ Call_set_address
    \/ Call_get_address

SpecAddr == Init /\ [][NextAddr]_vars

\* a channel handle, used while its driver exists and after
NextPwm ==
    \/ Call_open_first
    \/ Call_destructor
    \/ Call_constructor
    \/ Call_pwm_kept
    \/ Call_Pca9685Pwm_set_duty_cycle
    \/ Call_Pca9685Pwm_set_frequency
    \/ Call_Pca9685Pwm_set_phase

SpecPwm == Init /\ [][NextPwm]_vars

\* a servo on a channel handle, used until its driver is destroyed and after
NextServo ==
    \/ Call_open_first
    \/ Call_destructor
    \/ Call_pwm_kept
    \/ Call_Servo
    \/ Call_Servo_init
    \/ Call_Servo_set_angle

SpecServo == Init /\ [][NextServo]_vars

\* a kinematic chain: one call at a time, inverse_kinematics step by step
NextKin ==
    \/ Call_KinematicChain
    \/ Call_set_angles
    \/ Call_forward_kinematics
    \/ Call_inverse_kinematics
    \/ inverse_kinematics_while
    \/ inverse_kinematics_for

SpecKin == Init /\ [][NextKin]_vars

----------------------------------------------------------------------------
(* Vocabulary of the properties *)

Channels == 0 .. (CHANNELS_COUNT - 1)

\* the always-off flag of channel c
AlwaysOff(r, c) == BitAnd(r[ChanReg(c, 3)], LED_OFF_MASK) # 0

\* floor(t * 4096) clamped to 4095, for a fraction t = <<num, den>>
Ticks(t) ==
    LET q == (t[1] * 4096) \div t[2]
    IN IF q > 4095 THEN 4095 ELSE q

InUnit(t) == 0 <= t[1] /\ t[1] <= t[2]

\* equality of two rationals <<num, den>>
RatEq(x, y) == x[1] * y[2] = x[2] * y[1]

\* a rejected call: validation error, no bus transaction
Rejected(l) == ~l.ok /\ l.err = "EINVAL" /\ l.log = <<>>

\* what on_off_times(c) finds in the registers r
TimesOf(r, c) == OnOffTimes(ChipReadBlock(r, ChanReg(c, 0), NUM_REGISTERS_PER_CHANNEL))

\* round(clock / (4096 * freq)) - 1
RoundedPrescale(freq, clock) == (2 * clock + 4096 * freq) \div (2 * 4096 * freq) - 1

\* the time v = <<ticks, 4096>> lies within one tick of the fraction t
Near(v, t) ==
    /\ v[2] = 4096
    /\ v[1] * t[2] - t[1] * 4096 <= t[2]
    /\ t[1] * 4096 - v[1] * t[2] <= t[2]

IsWrite(e) == e.kind \in {"write", "write_block"}

----------------------------------------------------------------------------
(* Properties *)

\* C1: whenever close() releases the bus handle, be it called directly or
\* by the destructor, every one of the 16 channels has its always-off flag
\* set at that moment.
C1_CloseReleasesOnlyAllOff ==
    [][ (last'.op \in {"close", "~Pca9685"} /\ fd \in open_fds /\ fd \notin open_fds')
            => \A c \in Channels : AlwaysOff(regs', c) ]_vars

\* a close that released the handle of a driver whose channel 0 had been
\* given the on time 2048
C1_Witness ==
    /\ last.op = "close" /\ last.ok /\ fd = -1
    /\ Len(last.log) = 2 /\ last.log[2].ok
    /\ regs[ChanReg(0, 1)] = 8
    /\ \A c \in Channels : AlwaysOff(regs, c)

\* C2: set_on_off_times with on or off outside [0, 1], or with both
\* fractions quantizing to the same tick count, returns EINVAL, issues no
\* bus transaction and leaves every chip register unchanged.
C2_BadTimesRejected ==
    [][ (/\ last'.op = "set_on_off_times"
         /\ \/ ~InUnit(last'.args.on)
            \/ ~InUnit(last'.args.off)
            \/ Ticks(last'.args.on) = Ticks(last'.args.off))
            => (Rejected(last') /\ regs' = regs) ]_vars

\* an open driver rejected two different fractions of the same tick
C2_Witness ==
    /\ last.op = "set_on_off_times" /\ Rejected(last)
    /\ last.args.channel = 0
    /\ last.args.on = <<1, 1>> /\ last.args.off = <<8191, 8192>>
    /\ fd \in open_fds

C4_BadFrequencyRejected ==
    [][ (/\ last'.op = "set_frequency"
         /\ \/ last'.args.freq <= 0
            \/ last'.args.clock < 0
            \/ RoundedPrescale(last'.args.freq, last'.args.clock) \notin 3 .. 255)
            => (Rejected(last') /\ regs' = regs) ]_vars

\* a running chip was asked for 23 Hz (prescale 264) and stayed running
C4_Witness ==
    /\ last.op = "set_frequency" /\ Rejected(last)
    /\ last.args.freq = 23 /\ last.args.clock = 25000000
    /\ fd \in open_fds
    /\ ~ChipAsleep(regs)

\* C5: the prescale register is written only while the sleep bit is set:
\* no call issues a write to it with the sleep bit clear, only
\* set_frequency writes it, and set_frequency does so after the write that
\* sets the sleep bit and before the restart clears it.
C5_PrescaleWrittenAsleep ==
    \A i \in 1 .. Len(last.log) :
        (IsWrite(last.log[i]) /\ last.log[i].reg = PRESCALE_REGISTER)
            => /\ last.log[i].asleep
               /\ last.op = "set_frequency"
               /\ i = 3
               /\ IsWrite(last.log[2]) /\ last.log[2].ok
               /\ last.log[2].reg = MODE1_REGISTER
               /\ BitAnd(last.log[2].data[1], MODE1_SLEEP_MASK) # 0
               /\ \A j \in 1 .. Len(last.log) :
                     (/\ IsWrite(last.log[j])
                      /\ last.log[j].reg = MODE1_REGISTER
                      /\ BitAnd(last.log[j].data[1], MODE1_SLEEP_MASK) = 0) => j > i
               /\ last.ok => \E j \in (i + 1) .. Len(last.log) :
                                /\ IsWrite(last.log[j]) /\ last.log[j].ok
                                /\ last.log[j].reg = MODE1_REGISTER
                                /\ BitAnd(last.log[j].data[1], MODE1_SLEEP_MASK) = 0

\* set_frequency(50) succeeded on a chip that was running when called
C5_Witness ==
    /\ last.op = "set_frequency" /\ last.ok
    /\ last.args.freq = 50
    /\ ~last.log[1].asleep
    /\ last.log[3].reg = PRESCALE_REGISTER /\ last.log[3].data = <<121>>

\* C6: after any set_frequency call that returns success the sleep bit of
\* mode register 1 is clear, whatever it was before the call.
C6_RunningAfterSetFrequency ==
    (last.op = "set_frequency" /\ last.ok) => ~ChipAsleep(regs)

\* set_frequency succeeded on a chip that was asleep when called
C6_Witness ==
    /\ last.op = "set_frequency" /\ last.ok
    /\ last.log[1].asleep
    /\ ~ChipAsleep(regs)

\* C7: a successful set_frequency(freq, clock) leaves
\* round(clock / (4096 * freq)) - 1 in the prescale register (121 for 50 Hz
\* at 25 MHz), and a frequency(clock) that follows it returns
\* clock / ((prescale + 1) * 4096).
C7_PrescaleExact ==
    [][ /\ (last'.op = "set_frequency" /\ last'.ok)
            => /\ regs'[PRESCALE_REGISTER] = RoundedPrescale(last'.args.freq, last'.args.clock)
               /\ (last'.args.freq = 50 /\ last'.args.clock = 25000000)
                      => regs'[PRESCALE_REGISTER] = 121
        /\ (/\ last.op = "set_frequency" /\ last.ok
            /\ last'.op = "frequency" /\ last'.ok)
            => last'.val = << last'.args.clock,
                              (RoundedPrescale(last.args.freq, last.args.clock) + 1) * 4096 >> ]_vars

\* frequency() read back the prescale that 60 Hz rounds up to
C7_Witness ==
    /\ last.op = "frequency" /\ last.ok
    /\ last.val = <<25000000, 102 * 4096>>
    /\ regs[PRESCALE_REGISTER] = 101

\* C8: for a channel c in 0..15, a successful set_on_off_times(c, on, off)
\* followed by on_off_times(c) returns on = min(floor(on * 4096), 4095) / 4096
\* and off likewise; (0.5, 0.75) is returned exactly.
C8_TimesRoundTrip ==
    [][ (/\ last.op = "set_on_off_times" /\ last.ok
         /\ last.args.channel \in Channels
         /\ last'.op = "on_off_times" /\ last'.ok
         /\ last'.args.channel = last.args.channel)
            => /\ last'.val.on = <<Ticks(last.args.on), 4096>>
               /\ last'.val.off = <<Ticks(last.args.off), 4096>>
               /\ (last.args.on = <<1, 2>> /\ last.args.off = <<3, 4>>)
                      => RatEq(last'.val.on, <<1, 2>>) /\ RatEq(last'.val.off, <<3, 4>>) ]_vars

\* channel 0 read back after it was given on = 1.0, which is clamped
C8_Witness ==
    /\ last.op = "on_off_times" /\ last.ok /\ last.args.channel = 0
    /\ last.val.on = <<4095, 4096>> /\ last.val.off = <<2048, 4096>>
    /\ TimesOf(regs, 15).on # <<4095, 4096>>

\* C9: after a successful set_on_off_times(ALL_CHANNELS, on, off) every
\* channel k in 0..15 holds, and on_off_times(k) returns, on and off within
\* one tick (1/4096) of the requested fractions.
C9_Broadcast ==
    [][ /\ (/\ last'.op = "set_on_off_times" /\ last'.ok
            /\ last'.args.channel = ALL_CHANNELS)
            => \A k \in Channels :
                  LET t == TimesOf(regs', k)
                  IN /\ Near(t.on, last'.args.on)
                     /\ Near(t.off, last'.args.off)
        /\ (/\ last.op = "set_on_off_times" /\ last.ok
            /\ last.args.channel = ALL_CHANNELS
            /\ last'.op = "on_off_times" /\ last'.ok
            /\ last'.args.channel \in Channels)
            => /\ Near(last'.val.on, last.args.on)
               /\ Near(last'.val.off, last.args.off) ]_vars

\* channel 15, never addressed itself, read back with the broadcast times
C9_Witness ==
    /\ last.op = "on_off_times" /\ last.ok /\ last.args.channel = 15
    /\ last.val.on = <<1024, 4096>> /\ last.val.off = <<3481, 4096>>

\* C10: a successful restart() returns true iff the restart-needed flag was
\* set when the call began, and leaves the sleep bit clear in both cases.
C10_RestartResult ==
    [][ (last'.op = "restart" /\ last'.ok)
            => /\ last'.val = (BitAnd(regs[MODE1_REGISTER], MODE1_RESTART_MASK) # 0)
               /\ ~ChipAsleep(regs') ]_vars

\* restart() reported that a restart occurred
C10_Witness ==
    /\ last.op = "restart" /\ last.ok /\ last.val = TRUE
    /\ Len(last.log) = 5
    /\ ~ChipAsleep(regs)

\* the restart-needed flag of the chip
RestartFlag(r) == BitAnd(r[MODE1_REGISTER], MODE1_RESTART_MASK) # 0

\* C11: a successful sleep() leaves the chip asleep and asleep() then
\* returns true; a sleep() that stops a running chip leaves the
\* restart-needed flag set exactly if a channel was driven at that moment,
\* in particular set when the call before was a successful
\* set_on_off_times; needs_restart() after the sleep() returns that flag,
\* and restart() on a sleeping chip whose flag is set wakes it and returns
\* true.
C11_RestartAcrossSleep ==
    [][ /\ (last'.op = "sleep" /\ last'.ok)
            => /\ ChipAsleep(regs')
               /\ ~ChipAsleep(regs) => (RestartFlag(regs') <=> AnyChanActive(regs))
               /\ (~ChipAsleep(regs) /\ last.op = "set_on_off_times" /\ last.ok)
                      => RestartFlag(regs')
        /\ (last.op = "sleep" /\ last.ok /\ last'.op = "asleep" /\ last'.ok)
            => last'.val = TRUE
        /\ (last.op = "sleep" /\ last.ok /\ last'.op = "needs_restart" /\ last'.ok)
            => last'.val = RestartFlag(regs)
        /\ (ChipAsleep(regs) /\ RestartFlag(regs) /\ last'.op = "restart" /\ last'.ok)
            => (last'.val = TRUE /\ ~ChipAsleep(regs') /\ ~RestartFlag(regs')) ]_vars

\* needs_restart() returned true on a sleeping chip with channel 0 driven
C11_Witness ==
    /\ last.op = "needs_restart" /\ last.ok /\ last.val = TRUE
    /\ ChipAsleep(regs) /\ ChanActive(regs, 0)

\* C12: while the driver holds no bus handle, every operation other than
\* open (close included) returns an error, changes no chip register and
\* leaves the driver without a handle, and only open gives it one.
C12_NoHandleAdmitsOnlyOpen ==
    [][ (alive /\ fd = -1)
            => /\ last'.op \notin {"open", "Pca9685", "~Pca9685"}
                    => (~last'.ok /\ regs' = regs /\ fd' = -1)
               /\ fd' # -1 => last'.op = "open" ]_vars

\* C13: a failed open() returns the error of the step that failed and
\* leaves the driver without a handle, the descriptor acquired during the
\* attempt released; a successful open() leaves the driver holding an open
\* descriptor and the auto-increment bit of mode register 1 set.
C13_OpenAllOrNothing ==
    [][ (last'.op = "open")
            => IF last'.ok
               THEN /\ fd' \in open_fds' /\ fd' \notin open_fds
                    /\ ChipAutoInc(regs')
               ELSE /\ fd' = -1 /\ open_fds' = open_fds
                    /\ last'.err \in {"ENOENT", "EIO"}
                    /\ last'.log # <<>>
                          => (~last'.log[Len(last'.log)].ok /\ last'.err = "EIO") ]_vars

\* open() failed on the write that enables auto-increment
C13_Witness ==
    /\ last.op = "open" /\ ~last.ok /\ Len(last.log) = 2
    /\ fd = -1 /\ ~ChipAutoInc(regs)

\* C14: set_always_on and set_always_off leave the on and off times that
\* on_off_times reports unchanged for every channel 0..15, whether they
\* address one channel or ALL_CHANNELS.
C14_FlagsKeepTimes ==
    [][ (last'.op \in {"set_always_on", "set_always_off"})
            => \A k \in Channels :
                  /\ TimesOf(regs', k).on = TimesOf(regs, k).on
                  /\ TimesOf(regs', k).off = TimesOf(regs, k).off ]_vars

\* register and mask of the setting each chip-wide mutator writes
MutatorReg(op) ==
    IF op \in {"set_external_driver", "set_output_inverted", "set_output_change",
                "set_output_disabled_mode"}
    THEN MODE2_REGISTER ELSE MODE1_REGISTER

MutatorMask(op) ==
    CASE op = "sleep" -> MODE1_SLEEP_MASK
      [] op = "set_subaddress1_enabled" -> MODE1_SUB1_MASK
      [] op = "set_subaddress2_enabled" -> MODE1_SUB2_MASK
      [] op = "set_subaddress3_enabled" -> MODE1_SUB3_MASK
      [] op = "set_all_call_address_enabled" -> MODE1_ALLCALL_MASK
      [] op = "set_external_driver" -> MODE2_OUTDRV_MASK
      [] op = "set_output_inverted" -> MODE2_INVRT_MASK
      [] op = "set_output_change" -> MODE2_OCH_MASK
      [] op = "set_output_disabled_mode" -> MODE2_OUTNE_MASK

Mutators == FlagSetters \cup {"sleep", "set_output_change", "set_output_disabled_mode"}

\* C15: every chip-wide mutator of a mode register changes only the bits
\* under its own mask: the other bits of that register, and the other mode
\* register, are after the call what they were before it.
C15_MaskedWrites ==
    [][ (last'.op \in Mutators)
            => LET reg == MutatorReg(last'.op)
                   other == MODE1_REGISTER + MODE2_REGISTER - reg
               IN /\ BitClear(regs'[reg], MutatorMask(last'.op))
                        = BitClear(regs[reg], MutatorMask(last'.op))
                  /\ regs'[other] = regs[other] ]_vars

\* the getter that matches a setter: its name without the leading set_
GetterOf(op) ==
    CASE op = "set_all_call_address_enabled" -> "all_call_address_enabled"
      [] op = "set_subaddress1_enabled" -> "subaddress1_enabled"
      [] op = "set_subaddress2_enabled" -> "subaddress2_enabled"
      [] op = "set_subaddress3_enabled" -> "subaddress3_enabled"
      [] op = "set_external_driver" -> "external_driver"
      [] op = "set_output_inverted" -> "output_inverted"
      [] op = "set_output_change" -> "output_change"
      [] op = "set_output_disabled_mode" -> "output_disabled_mode"
      [] op = "set_subaddress1" -> "subaddress1"
      [] op = "set_subaddress2" -> "subaddress2"
      [] op = "set_subaddress3" -> "subaddress3"
      [] op = "set_all_call_address" -> "all_call_address"

ModeSetters == FlagSetters \cup {"set_output_change", "set_output_disabled_mode"}

\* the value handed to a setter of a mode setting
SetValue(l) == IF l.op \in FlagSetters THEN l.args.enabled ELSE l.args.value

\* C16: after a successful setter of a mode setting, called with v, a
\* successful call of the matching getter returns v; and the bits of the
\* setting in the register hold v as soon as the setter has returned.
C16_ModeRoundTrip ==
    [][ /\ (last.op \in ModeSetters /\ last.ok
             /\ last'.op = GetterOf(last.op) /\ last'.ok)
            => last'.val = SetValue(last)
        /\ (last'.op \in FlagSetters \cup {"set_output_change"} /\ last'.ok)
            => ((BitAnd(regs'[MutatorReg(last'.op)], MutatorMask(last'.op)) # 0)
                    <=> (IF last'.op \in FlagSetters THEN last'.args.enabled
                         ELSE last'.args.value = OnAck))
        /\ (last'.op = "set_output_disabled_mode" /\ last'.ok)
            => BitAnd(regs'[MODE2_REGISTER], MODE2_OUTNE_MASK) = last'.args.value ]_vars

\* output_disabled_mode() returned HighImpedance, which only a setter call
\* can have stored
C16_Witness ==
    /\ last.op = "output_disabled_mode" /\ last.ok /\ last.val = HighImpedance

\* register an address setter or getter addresses
AddressReg(op) ==
    CASE op \in {"set_subaddress1", "subaddress1"} -> SUB1_REGISTER
      [] op \in {"set_subaddress2", "subaddress2"} -> SUB2_REGISTER
      [] op \in {"set_subaddress3", "subaddress3"} -> SUB3_REGISTER
      [] op \in {"set_all_call_address", "all_call_address"} -> ALLCALL_REGISTER

\* C17: after a successful set_subaddress1/2/3(a) or set_all_call_address(a)
\* the matching getter returns a with its lowest bit cleared; the register
\* holds that value when the setter returns, close() and open() leave the
\* address registers as they are, and a getter returns what its register
\* holds.
C17_AddressRoundTrip ==
    [][ /\ (last.op \in AddressSetters /\ last.ok
             /\ last'.op = GetterOf(last.op) /\ last'.ok)
            => last'.val = BitAnd(last.args.value, 254)
        /\ (last'.op \in AddressSetters /\ last'.ok)
            => regs'[AddressReg(last'.op)] = BitAnd(last'.args.value, 254)
        /\ (last'.op \in {"close", "open"})
            => \A reg \in {SUB1_REGISTER, SUB2_REGISTER, SUB3_REGISTER, ALLCALL_REGISTER} :
                  regs'[reg] = regs[reg]
        /\ (last'.op \in AddressGetters /\ last'.ok)
            => last'.val = regs[AddressReg(last'.op)] ]_vars

\* subaddress1() returned 0x0a, stored by set_subaddress1(0x0b)
C17_Witness ==
    /\ last.op = "subaddress1" /\ last.ok /\ last.val = 10

\* the four bytes that hold the tick counts on and off
TickBytes(on, off) == <<on % 256, on \div 256, off % 256, off \div 256>>

\* C18: set_duty_cycle(d) on a handle of channel c with phase p, its driver
\* still there, stores d and makes the one driver call
\* set_on_off_times(c, p, p + d): at most one bus transaction, on success the
\* block write of the ticks of p and p + d to the registers of c, and the
\* driver's error otherwise (EINVAL before any transaction when p or p + d
\* is outside [0, 1] or both fall on the same tick, the bus error when the
\* write fails).
C18_DutyCycleForwarded ==
    [][ (last'.op = "Pca9685Pwm::set_duty_cycle" /\ ~handle.expired)
            => LET c == handle.channel
                   p == handle.phase
                   e == FracAdd(handle.phase, last'.args.on)
                   valid == InUnit(p) /\ InUnit(e) /\ Ticks(p) # Ticks(e)
               IN /\ handle' = [handle EXCEPT !.duty_cycle = last'.args.on]
                  /\ IF ~valid
                     THEN Rejected(last') /\ regs' = regs
                     ELSE /\ Len(last'.log) = 1
                          /\ last'.log[1].kind = "write_block"
                          /\ last'.log[1].reg = (c * 4 + 6) % 256
                          /\ last'.log[1].data = TickBytes(Ticks(p), Ticks(e))
                          /\ last'.ok = last'.log[1].ok
                          /\ ~last'.ok => (last'.err \in {"EIO", "EBADF"} /\ regs' = regs) ]_vars

\* a pulse from 3/4 to the end of the period was written through the handle
C18_Witness ==
    /\ last.op = "Pca9685Pwm::set_duty_cycle" /\ last.ok
    /\ handle.phase = <<3, 4>> /\ handle.duty_cycle = <<1, 4>>
    /\ last.log[1].data = <<0, 12, 255, 15>>

\* C19: destroying the driver does not wait for its handles and makes them
\* expire for good; set_duty_cycle on a handle whose driver is gone returns
\* ENODEV, issues no bus transaction and changes no register, also when a
\* new driver has been made and opened since.
C19_HandleAfterDriver ==
    [][ /\ (last'.op = "~Pca9685")
            => (~alive' /\ (handle.made => handle'.expired))
        /\ (handle.made /\ ~alive) => handle.expired
        /\ (handle.expired /\ last'.op # "pwm") => handle'.expired
        /\ (last'.op = "Pca9685Pwm::set_duty_cycle" /\ handle.expired)
            => /\ ~last'.ok /\ last'.err = "ENODEV"
               /\ last'.log = <<>> /\ regs' = regs ]_vars

\* the handle of a destroyed driver was used while a new driver is open
C19_Witness ==
    /\ last.op = "Pca9685Pwm::set_duty_cycle" /\ last.err = "ENODEV"
    /\ handle.expired /\ alive /\ fd \in open_fds

\* C20: set_frequency on a channel handle returns success for every
\* argument, issues no bus transaction and leaves every register of the
\* chip, and the handle, as they were.
C20_HandleFrequencyNoOp ==
    [][ (last'.op = "Pca9685Pwm::set_frequency")
            => /\ last'.ok /\ last'.log = <<>>
               /\ regs' = regs /\ handle' = handle ]_vars

\* set_frequency(50) on the handle of an open driver, the prescale still 30
C20_Witness ==
    /\ last.op = "Pca9685Pwm::set_frequency" /\ last.ok /\ last.args.freq = 50
    /\ ~handle.expired /\ fd \in open_fds /\ regs[PRESCALE_REGISTER] = 30

\* C21: after init() succeeds on a Servo that owns a channel handle of an
\* open driver, the prescale register holds the value of 50 Hz at the
\* 25 MHz clock, 121.
C21_InitSetsPrescale ==
    (last.op = "Servo::init" /\ last.ok /\ ~handle.expired /\ fd \in open_fds)
        => regs[PRESCALE_REGISTER] = 121

\* the angle passed to the set_angle call recorded in l lies in [-90, 90]
AngleInRange(l) == -90 <= l.args.value /\ l.args.value <= 90

\* C22 as stated: set_angle(a) returns a validation error exactly when
\* a < -90 or a > 90.
C22_ErrorIffOutOfRange ==
    (last.op = "Servo::set_angle")
        => ((~last.ok /\ last.err = "EINVAL") <=> ~AngleInRange(last))

\* C22, amended: set_angle(a) is rejected by the Servo itself, with EINVAL
\* and without a call to the owned channel (no duty cycle stored, no bus
\* transaction, no register changed), exactly when a < -90 or a > 90; for
\* a in [-90, 90] the channel is called and the error returned, if any, is
\* the channel's own, which is the driver's EINVAL when the duty cycle
\* gives no valid pulse.
C22_AngleValidation ==
    [][ (last'.op = "Servo::set_angle")
            => /\ ~AngleInRange(last')
                    => /\ Rejected(last') /\ last'.detail = ""
                       /\ handle' = handle /\ regs' = regs
               /\ AngleInRange(last')
                    => /\ last'.ok \/ last'.err # "EINVAL" \/ last'.detail # ""
                       /\ ~last'.ok /\ last'.err = "EINVAL"
                            => LET e == FracAdd(handle.phase, handle'.duty_cycle)
                               IN ~InUnit(e) \/ Ticks(e) = Ticks(handle.phase) ]_vars

\* set_angle(91) was rejected on the servo of an open driver
C22_Witness ==
    /\ last.op = "Servo::set_angle" /\ last.args.value = 91 /\ Rejected(last)
    /\ ~handle.expired /\ fd \in open_fds

\* C23: set_angle(a) with a in [-90, 90] makes one set_duty_cycle call on
\* the owned channel, with a / 90 * half_angle_duty_cycle + offset (the
\* offset itself for a = 0), and returns its result: ENODEV when the driver
\* is gone, else the driver's EINVAL before any transaction when the pulse
\* is not valid, else the result of the one block write of the pulse.
C23_AngleForwarded ==
    [][ (last'.op = "Servo::set_angle" /\ AngleInRange(last'))
            => LET a == last'.args.value
                   h == handle.half_angle_duty_cycle
                   o == handle.offset
                   d == <<a * h[1] * o[2] + 90 * h[2] * o[1], 90 * h[2] * o[2]>>
                   p == handle.phase
                   e == FracAdd(p, d)
                   valid == InUnit(p) /\ InUnit(e) /\ Ticks(p) # Ticks(e)
               IN /\ RatEq(handle'.duty_cycle, d)
                  /\ a = 0 => RatEq(handle'.duty_cycle, o)
                  /\ handle' = [handle EXCEPT !.duty_cycle = handle'.duty_cycle]
                  /\ IF handle.expired
                     THEN ~last'.ok /\ last'.err = "ENODEV" /\ last'.log = <<>>
                     ELSE IF ~valid
                     THEN Rejected(last') /\ regs' = regs
                     ELSE /\ Len(last'.log) = 1
                          /\ last'.log[1].kind = "write_block"
                          /\ last'.log[1].reg = (handle.channel * 4 + 6) % 256
                          /\ last'.log[1].data = TickBytes(Ticks(p), Ticks(e))
                          /\ last'.ok = last'.log[1].ok ]_vars

\* set_angle(0) with the default calibration wrote the pulse 0 .. 307, the
\* ticks of 0.075
C23_Witness ==
    /\ last.op = "Servo::set_angle" /\ last.ok /\ last.args.value = 0
    /\ handle.half_angle_duty_cycle = <<1, 40>> /\ handle.duty_cycle = <<3, 40>>
    /\ last.log[1].data = <<0, 0, 51, 1>>

IKMeasure(k, n) ==
    LET left == IF k.max_iterations > k.iteration THEN k.max_iterations - k.iteration ELSE 0
    IN IF k.pc = "idle" THEN 0
       ELSE IF k.pc = "while" THEN 1 + left * (n + 2)
       ELSE 1 + (left - 1) * (n + 2) + 1 + k.joint

\* C24: inverse_kinematics terminates: every step of a running call
\* lowers a count that is never negative. It makes at most max_iterations
\* passes, none when max_iterations <= 0 (it then returns at the first loop
\* test with the chain as it was), and a pass is one round for each joint,
\* from the last joint down, before the pass counter goes up by one.
C24_BoundedPasses ==
    [][ LET n == Len(chain.joints)
        IN /\ ik.pc # "idle" => (IKMeasure(ik', n) < IKMeasure(ik, n) /\ IKMeasure(ik', n) >= 0)
           /\ ik'.iteration <= (IF ik'.max_iterations > 0 THEN ik'.max_iterations ELSE 0)
           /\ (ik.pc = "while" /\ ik.max_iterations <= 0) => (ik'.pc = "idle" /\ chain' = chain)
           /\ (ik.pc = "while" /\ ik'.pc = "for") => (ik'.joint = n /\ ik'.iteration = ik.iteration)
           /\ (ik.pc = "for" /\ ik.joint > 0)
                => (ik'.pc = "for" /\ ik'.joint = ik.joint - 1 /\ ik'.iteration = ik.iteration)
           /\ (ik.pc = "for" /\ ik.joint = 0)
                => (ik'.pc = "while" /\ ik'.iteration = ik.iteration + 1 /\ chain' = chain) ]_vars

\* inverse_kinematics returned after 128 passes, the target out of reach
C24_Witness ==
    /\ ik.op = "inverse_kinematics" /\ ik.pc = "idle"
    /\ ik.iteration = MAX_ITERATIONS /\ ik.target = <<0, 5, 1>>
    /\ distance2(ik.ee_pos, ik.target) = 9

\* some assignment of quarter turns to the joints puts the end of the
\* chain at t
Reachable(t) ==
    \E angles \in [1 .. Len(chain.joints) -> 0 .. 3] :
        forward_kinematics(chain.parameters, set_angles(chain.joints, angles)).pos = t

\* C25: when inverse_kinematics(target), with the default iteration cap,
\* has returned for a target the chain can reach, the position
\* forward_kinematics() gives is within max_error of the target.
C25_Converges ==
    (ik.op = "inverse_kinematics" /\ ik.pc = "idle"
        /\ ik.max_iterations = MAX_ITERATIONS /\ Reachable(ik.target))
        => LET s == distance2(forward_kinematics(chain.parameters, chain.joints).pos, ik.target)
           IN s # NaN /\ s <= ik.max_error * ik.max_error

\* C26: no joint angle is ever NaN.
C26_NoNaN ==
    \A i \in 1 .. Len(chain.joints) : chain.joints[i].angle # NaN

\* C27: a forward_kinematics call changes neither the parameters nor the
\* number of joints nor any joint angle, and when the call before it on
\* the chain was forward_kinematics too it returns the same position and
\* leaves the cached positions and axes as they were.
C27_ForwardKinematicsPure ==
    [][ (ik.pc = "idle" /\ ik'.pc = "idle" /\ ik'.op = "forward_kinematics")
            => /\ chain'.parameters = chain.parameters
               /\ Len(chain'.joints) = Len(chain.joints)
               /\ \A i \in 1 .. Len(chain.joints) :
                     chain'.joints[i].angle = chain.joints[i].angle
               /\ ik.op = "forward_kinematics" => (ik'.ret = ik.ret /\ chain' = chain) ]_vars

\* forward_kinematics returned the end of the shoulder chain, its link
\* turned up by a negative angle that inverse_kinematics left
C27_Witness ==
    /\ ik.op = "forward_kinematics" /\ ik.pc = "idle"
    /\ Len(chain.joints) = 2 /\ chain.joints[2].angle = -1 /\ chain.joints[1].angle # NaN
    /\ ik.ret = <<0, 0, -1>>

\* C30: a pass begins at the last joint and goes down to the first; each
\* round changes the angle of its joint only, by the signed angle computed
\* from the end position and the cached position and axis of that joint,
\* and runs forward kinematics; so throughout the call the end position
\* and the cached positions and axes are those of the angles as they are,
\* all earlier corrections of the pass included.
C30_JointOrder ==
    [][ /\ (ik.pc = "while" /\ ik'.pc = "for") => ik'.joint = Len(chain.joints)
        /\ (ik.pc = "for" /\ ik.joint > 0)
            => LET j == ik.joint
                   joint == chain.joints[j]
               IN /\ ik'.joint = j - 1
                  /\ \A i \in 1 .. Len(chain.joints) :
                        i # j => chain'.joints[i].angle = chain.joints[i].angle
                  /\ chain'.joints[j].angle
                        = FAdd(joint.angle, compute_signed_angle(ik.ee_pos, ik.target, joint))
        /\ ik'.pc # "idle"
            => LET f == forward_kinematics(chain'.parameters, chain'.joints)
               IN ik'.ee_pos = f.pos /\ chain'.joints = f.joints ]_vars

\* in the first pass on the shoulder chain the link has been turned up and
\* the base joint is next, the end position already that of the new angle
C30_Witness ==
    /\ ik.pc = "for" /\ ik.joint = 1 /\ ik.iteration = 0
    /\ Len(chain.joints) = 2 /\ chain.joints[2].angle = 1 /\ chain.joints[1].angle = 0
    /\ ik.ee_pos = <<0, 0, 3>>

\* C31: inverse_kinematics changes no joint angle when the end of the
\* chain is within max_error of the target at entry, or when
\* max_iterations is zero or negative: its entry step keeps every angle,
\* and the first loop test then returns with the chain as it is.
C31_NoChangeWhenDone ==
    [][ /\ (ik.pc = "idle" /\ ik'.pc = "while")
            => \A i \in 1 .. Len(chain.joints) :
                  chain'.joints[i].angle = chain.joints[i].angle
        /\ (ik.pc = "while" /\ ik.iteration = 0
              /\ LET s == distance2(forward_kinematics(chain.parameters, chain.joints).pos,
                                    ik.target)
                 IN ik.max_iterations <= 0 \/ (s # NaN /\ s <= ik.max_error * ik.max_error))
            => (ik'.pc = "idle" /\ ik'.iteration = 0 /\ chain' = chain) ]_vars

\* inverse_kinematics returned without a pass, the joint of the one-joint
\* chain still turned by a quarter turn and the end at the target
C31_Witness ==
    /\ ik.op = "inverse_kinematics" /\ ik.pc = "idle" /\ ik.iteration = 0
    /\ ik.max_iterations = MAX_ITERATIONS /\ ik.target = <<0, 2, 1>>
    /\ Len(chain.joints) = 1 /\ chain.joints[1].angle = 1
    /\ forward_kinematics(chain.parameters, chain.joints).pos = <<0, 2, 1>>

\* the end of the first n joints of the chain, as forward_kinematics
\* returns it for a chain of these joints alone
PrefixEnd(n) ==
    forward_kinematics(SubSeq(chain.parameters, 1, n), SubSeq(chain.joints, 1, n)).pos

\* the z-axis of the frame after the first n joints: where a further
\* joint with d = 1 and nothing else moves the end
PrefixAxis(n) ==
    LET e == forward_kinematics(
                 Append(SubSeq(chain.parameters, 1, n), [d |-> 1, alpha |-> 0, r |-> 0]),
                 Append(SubSeq(chain.joints, 1, n),
                        [angle |-> 0, position |-> <<0, 0, 0>>, z |-> <<0, 0, 0>>])).pos
        p == PrefixEnd(n)
    IN [k \in 1 .. 3 |-> FAdd(e[k], FMul(-1, p[k]))]

\* C32: when forward_kinematics has run on the angles as they are (called
\* by itself or within inverse_kinematics), the first joint caches the
\* origin (0,0,0) and the axis (0,0,1), joint i+1 caches the origin and
\* the z-axis of the frame reached after joints 1..i, its own rotation
\* and link not folded in, and the position returned is the origin of
\* the frame after the last joint.
C32_CachedFrames ==
    ik.op \in {"forward_kinematics", "inverse_kinematics"}
        => /\ chain.joints[1].position = <<0, 0, 0>>
           /\ chain.joints[1].z = <<0, 0, 1>>
           /\ \A i \in 0 .. Len(chain.joints) - 1 :
                 /\ chain.joints[i + 1].position = PrefixEnd(i)
                 /\ chain.joints[i + 1].z = PrefixAxis(i)
           /\ (ik.op = "forward_kinematics" /\ ik.pc = "idle")
                 => ik.ret = PrefixEnd(Len(chain.joints))
           /\ ik.pc # "idle" => ik.ee_pos = PrefixEnd(Len(chain.joints))

\* forward_kinematics ran on the shoulder chain, its base turned by two
\* quarter turns: the link caches the top of the base and the turned axis
C32_Witness ==
    /\ ik.op = "forward_kinematics" /\ ik.pc = "idle" /\ Len(chain.joints) = 2
    /\ chain.joints[1].angle = 2 /\ chain.joints[2].angle = -1
    /\ chain.joints[2].position = <<0, 0, 1>>
    /\ chain.joints[2].z = <<0, 1, 0>>
    /\ ik.ret # chain.joints[2].position

\* C33: the parameters and the joints of a chain are always of the same
\* length, and once the chain is made no call changes the parameters or
\* the number of joints; set_angles(angles) gives the first joints, as many
\* as the list has angles, the angles of the list, and changes no further
\* joint and no cached position or axis, whether the list is shorter or
\* longer than the chain.
C33_ChainShape ==
    [][ /\ Len(chain'.joints) = Len(chain'.parameters)
        /\ chain.parameters # <<>> => chain'.parameters = chain.parameters
        /\ (chain.parameters # <<>> /\ ik.pc = "idle" /\ ik'.pc = "idle" /\ ik'.op = "set_angles")
            => \A i \in 1 .. Len(chain.joints) :
                  /\ chain'.joints[i].position = chain.joints[i].position
                  /\ chain'.joints[i].z = chain.joints[i].z
                  /\ chain'.joints[i].angle
                        = IF i <= Len(ik'.angles) THEN ik'.angles[i] ELSE chain.joints[i].angle
      ]_vars

\* set_angles with one angle on the shoulder chain: the link keeps the
\* angle an earlier set_angles gave it
C33_Witness ==
    /\ ik.op = "set_angles" /\ ik.pc = "idle" /\ ik.angles = <<1>>
    /\ Len(chain.parameters) = 2 /\ Len(chain.joints) = 2
    /\ chain.joints[1].angle = 1 /\ chain.joints[2].angle = -1

\* C34: while the driver holds a bus handle the auto-increment bit of mode
\* register 1 is set, whatever calls were made since open() and whether
\* they succeeded or failed; so the block write of every set_on_off_times
\* call that reaches the chip finds auto-increment enabled.
C34_AutoIncrementKept ==
    [][ /\ fd' >= 0 => ChipAutoInc(regs')
        /\ (last'.op = "set_on_off_times" /\ last' # last)
            => \A i \in 1 .. Len(last'.log) :
                  (last'.log[i].kind = "write_block" /\ last'.log[i].ok)
                      => (fd >= 0 /\ ChipAutoInc(regs)) ]_vars

\* set_frequency failed at its prescale write on the open driver: mode
\* register 1 was rewritten to put the chip to sleep and kept the bit
C34_Witness ==
    /\ fd >= 0 /\ last.op = "set_frequency" /\ ~last.ok /\ last.err = "EIO"
    /\ Len(last.log) = 3 /\ last.log[2].kind = "write" /\ last.log[2].reg = MODE1_REGISTER
    /\ last.log[2].ok /\ ChipAsleep(regs) /\ ChipAutoInc(regs)

\* C35: a successful set_on_off_times(c, on, off) is one block write of
\* four bytes at the first register of c, the flag bits of both high
\* bytes zero; after it on_off_times(c) reports always_on and always_off
\* false whatever the flags were, and the channel (every channel, for the
\* broadcast) is driven, also when close() or set_always_off had forced it
\* off.
C35_TimesClearFlags ==
    [][ (last'.op = "set_on_off_times" /\ last'.ok /\ last' # last)
            => LET c == last'.args.channel
                   t == on_off_times(NewBus(regs', TRUE, 0), c)
               IN /\ Len(last'.log) = 1
                  /\ last'.log[1].kind = "write_block"
                  /\ last'.log[1].reg = RegOf(c, 0)
                  /\ Len(last'.log[1].data) = NUM_REGISTERS_PER_CHANNEL
                  /\ BitAnd(last'.log[1].data[2], LED_ON_MASK) = 0
                  /\ BitAnd(last'.log[1].data[4], LED_OFF_MASK) = 0
                  /\ t.ok /\ ~t.val.always_on /\ ~t.val.always_off
                  /\ \A k \in 0 .. (CHANNELS_COUNT - 1) :
                        (k = c \/ c = ALL_CHANNELS)
                            => /\ ChanActive(regs', k)
                               /\ BitAnd(regs'[ChanReg(k, 1)], LED_ON_MASK) = 0 ]_vars

\* channel 0 is driven by set_on_off_times while channel 1 is still
\* forced off, as both were since power-up or the last close()
C35_Witness ==
    /\ last.op = "set_on_off_times" /\ last.ok /\ last.args.channel = 0
    /\ ChanActive(regs, 0) /\ ~ChanActive(regs, 1)
    /\ ~on_off_times(Bus(0), 0).val.always_off
    /\ on_off_times(Bus(0), 1).val.always_off

\* C36: the three sub-addresses and the all-call address are four
\* independent values: a successful set_subaddress1/2/3 or
\* set_all_call_address leaves what the getters of the other three return
\* as it was.
C36_AddressesIndependent ==
    [][ (last'.op \in AddressSetters /\ last'.ok /\ last' # last)
            => \A g \in AddressGetters \ {GetterOf(last'.op)} :
                  get_address(NewBus(regs', TRUE, 0), g).val
                      = get_address(NewBus(regs, TRUE, 0), g).val ]_vars

\* C37: the driver never loses a bus handle: every descriptor that is
\* open is the one the driver holds, so at most one is open, and none is
\* open once the driver is destroyed.
C37_NoHandleLost ==
    /\ open_fds \subseteq {fd}
    /\ ~alive => open_fds = {}

\* C38: a set_frequency call that returns an error on a chip whose sleep
\* bit was clear before the call leaves the sleep bit clear.
C38_FailedSetFrequencyAwake ==
    [][ (last'.op = "set_frequency" /\ ~last'.ok /\ last' # last /\ ~ChipAsleep(regs))
            => ~ChipAsleep(regs') ]_vars

\* C39: on a handle whose driver exists, set_duty_cycle(d) with phase p
\* succeeds only if p and p + d both lie in [0, 1] and fall on different
\* ticks; with d = 0 or p + d > 1 it returns the validation error and no
\* register is written; set_phase(p) stores p and makes no bus
\* transaction, and a later successful set_duty_cycle writes the ticks of
\* the stored phase.
C39_PulseWithinPeriod ==
    [][ /\ (last'.op = "Pca9685Pwm::set_duty_cycle" /\ ~handle.expired)
            => LET p == handle.phase
                   d == last'.args.on
                   e == FracAdd(p, d)
               IN /\ last'.ok
                       => /\ InUnit(p) /\ InUnit(e) /\ Ticks(p) # Ticks(e)
                          /\ \A k \in 0 .. (CHANNELS_COUNT - 1) :
                                (k = handle.channel \/ handle.channel = ALL_CHANNELS)
                                    => /\ TimesOf(regs', k).on = <<Ticks(p), COUNTER_TICKS>>
                                       /\ TimesOf(regs', k).off = <<Ticks(e), COUNTER_TICKS>>
                  /\ (d[1] = 0 \/ e[1] > e[2])
                       => (~last'.ok /\ last'.err = "EINVAL" /\ last'.log = <<>> /\ regs' = regs)
        /\ last'.op = "Pca9685Pwm::set_phase"
            => /\ last'.ok /\ last'.log = <<>> /\ regs' = regs
               /\ handle'.phase = last'.args.on ]_vars

\* set_duty_cycle(1/2) was rejected on the open driver's handle with phase
\* 3/4, the pulse ending past the period; the channel is as at power-up
C39_Witness ==
    /\ last.op = "Pca9685Pwm::set_duty_cycle" /\ ~last.ok /\ last.err = "EINVAL"
    /\ last.log = <<>> /\ ~handle.expired /\ fd >= 0
    /\ handle.phase = Frac(3, 4) /\ last.args.on = Frac(1, 2)
    /\ ~ChanActive(regs, handle.channel)

====
